---- MODULE Spec2Model ----
(***************************************************************************)
(* LabCalc: the unit conversion layer and the reaction computation of      *)
(* src/utils.py (compute_reaction and the functions it calls).             *)
(*                                                                         *)
(* Python floats are modelled as exact rationals <<n, d>> in lowest terms  *)
(* with d > 0, so every product, quotient and sum below is the value the   *)
(* source computes up to floating-point rounding.  A raised exception is   *)
(* modelled as the one-element tuple <<name>>.                             *)
(***************************************************************************)
EXTENDS Integers, Sequences, FiniteSets, TLC

VARIABLES
    card,            \* compute_reaction's argument: final volume, unit, rows
    pc,              \* position: "start", "loop", "returned", "raised",
                     \*           "conv_call", "conv_done", "f64_call", ...,
                     \*           or the page shown and "done" after a click
    i,               \* the loop index of enumerate(card["rows"], start=1)
    n_target_rows,   \* utils.py:139
    n_volume_rows,   \* utils.py:140
    errors,          \* utils.py:142
    computed,        \* utils.py:143
    total_uL,        \* utils.py:144
    final_uL,        \* utils.py:146
    exc,             \* the exception that left compute_reaction, or "none"
    call,            \* a call of one function of the conversion layer
    ret,             \* what that call returned or raised, or what a
                     \* handler of the page shows
    session_state,   \* st.session_state: rx_cards, current_plan_id,
                     \*                   tmpl_rows, creating_template
    database         \* the tables the handlers of app.py write

vars == <<card, pc, i, n_target_rows, n_volume_rows, errors, computed,
          total_uL, final_uL, exc, call, ret, session_state, database>>

-----------------------------------------------------------------------------
(* Rational arithmetic standing for Python's float operators.              *)

Abs(n) == IF n < 0 THEN -n ELSE n

RECURSIVE GCD(_, _)
GCD(a, b) == IF b = 0 THEN a ELSE GCD(b, a % b)

Norm(n, d) ==
    LET g == GCD(Abs(n), Abs(d))
        s == IF d < 0 THEN -1 ELSE 1
    IN  <<(s * n) \div g, (s * d) \div g>>

Zero == <<0, 1>>

RMul(a, b) ==
    LET g1 == GCD(Abs(a[1]), b[2])
        g2 == GCD(Abs(b[1]), a[2])
    IN  <<(a[1] \div g1) * (b[1] \div g2), (a[2] \div g2) * (b[2] \div g1)>>

RInv(b) == IF b[1] > 0 THEN <<b[2], b[1]>> ELSE <<-b[2], -b[1]>>

RAdd(a, b) ==
    LET g == GCD(a[2], b[2])
    IN  Norm(a[1] * (b[2] \div g) + b[1] * (a[2] \div g), (a[2] \div g) * b[2])

RSub(a, b) == RAdd(a, <<-b[1], b[2]>>)

RGt(a, b) == RSub(a, b)[1] > 0

RLe(a, b) == ~RGt(a, b)

ValueError == <<"ValueError">>

ZeroDivisionError == <<"ZeroDivisionError">>

IsErr(x) == Len(x) = 1

\* Python's x / y on floats: ZeroDivisionError when y == 0.
PyDiv(a, b) == IF b[1] = 0 THEN ZeroDivisionError ELSE RMul(a, RInv(b))

Thousand == <<1000, 1>>

Million == <<1000000, 1>>

\* The tolerance 1e-6 of utils.py:230.
Epsilon == <<1, 1000000>>

-----------------------------------------------------------------------------
(* utils.py:27-91, the unit conversion layer.                              *)

ConcUnits == {"M", "mM", "uM", "nM"}

VolUnits == {"uL", "mL"}

AmountUnits == {"nmol", "pmol", "umol"}

to_mM(value, unit) ==
    IF unit = "M" THEN RMul(value, Thousand)
    ELSE IF unit = "mM" THEN value
    ELSE IF unit = "uM" THEN RMul(value, RInv(Thousand))
    ELSE IF unit = "nM" THEN RMul(value, RInv(Million))
    ELSE ValueError

from_mM(value_mM, unit) ==
    IF unit = "M" THEN RMul(value_mM, RInv(Thousand))
    ELSE IF unit = "mM" THEN value_mM
    ELSE IF unit = "uM" THEN RMul(value_mM, Thousand)
    ELSE IF unit = "nM" THEN RMul(value_mM, Million)
    ELSE ValueError

to_uL(value, unit) ==
    IF unit = "uL" THEN value
    ELSE IF unit = "mL" THEN RMul(value, Thousand)
    ELSE ValueError

from_uL(value_uL, unit) ==
    IF unit = "uL" THEN value_uL
    ELSE IF unit = "mL" THEN RMul(value_uL, RInv(Thousand))
    ELSE ValueError

\* conc_from_amount_volume with "vol_uL != 0" in place of the "vol_uL > 0"
\* of utils.py:50.
conc_from_amount_volume_NonZeroGuard(amount, amount_unit, volume, volume_unit) ==
    LET amt_nmol == IF amount_unit = "pmol" THEN RMul(amount, RInv(Thousand))
                    ELSE IF amount_unit = "umol" THEN RMul(amount, Thousand)
                    ELSE amount
        vol_uL == IF volume_unit = "mL" THEN RMul(volume, Thousand) ELSE volume
        conc_mM == IF vol_uL[1] # 0 THEN PyDiv(amt_nmol, vol_uL) ELSE Zero
    IN  <<conc_mM, "mM">>

\* Returns the pair (conc_mM, "mM"); an unlisted amount unit is read as nmol
\* and an unlisted volume unit as uL (no branch raises).
conc_from_amount_volume(amount, amount_unit, volume, volume_unit) ==
    LET amt_nmol == IF amount_unit = "pmol" THEN RMul(amount, RInv(Thousand))
                    ELSE IF amount_unit = "umol" THEN RMul(amount, Thousand)
                    ELSE amount
        vol_uL == IF volume_unit = "mL" THEN RMul(volume, Thousand) ELSE volume
        conc_mM == IF RGt(vol_uL, Zero) THEN PyDiv(amt_nmol, vol_uL) ELSE Zero
    IN  <<conc_mM, "mM">>

-----------------------------------------------------------------------------
(* utils.py:94-127, chemistry math.  Each function is split in two: the    *)
(* conversions it starts with, and its body given their results.           *)

\* amount_nmol_body with the amount in umol: the product over 1000.
amount_nmol_body_Micromol(c_mM, v_uL) ==
    IF IsErr(c_mM) THEN c_mM
    ELSE IF IsErr(v_uL) THEN v_uL
    ELSE PyDiv(RMul(c_mM, v_uL), Thousand)

\* utils.py:106, given c_mM and v_uL of lines 104-105.
amount_nmol_body(c_mM, v_uL) ==
    IF IsErr(c_mM) THEN c_mM
    ELSE IF IsErr(v_uL) THEN v_uL
    ELSE RMul(c_mM, v_uL)

amount_nmol_from_conc_vol(target_conc, target_unit, final_volume, final_vol_unit) ==
    amount_nmol_body(to_mM(target_conc, target_unit), to_uL(final_volume, final_vol_unit))

\* calc_volume_body without the "if stock_mM <= 0" guard of utils.py:124-125.
calc_volume_body_Unguarded(stock_mM, target_mM, f_uL) ==
    IF IsErr(stock_mM) THEN stock_mM
    ELSE IF IsErr(target_mM) THEN target_mM
    ELSE IF IsErr(f_uL) THEN f_uL
    ELSE PyDiv(RMul(target_mM, f_uL), stock_mM)

\* calc_volume_body with stock and target exchanged in utils.py:127.
calc_volume_body_Exchanged(stock_mM, target_mM, f_uL) ==
    IF IsErr(stock_mM) THEN stock_mM
    ELSE IF IsErr(target_mM) THEN target_mM
    ELSE IF IsErr(f_uL) THEN f_uL
    ELSE IF RLe(stock_mM, Zero) THEN Zero
    ELSE PyDiv(RMul(stock_mM, f_uL), target_mM)

\* utils.py:124-127, given stock_mM, target_mM and final_uL of lines 120-122.
calc_volume_body(stock_mM, target_mM, f_uL) ==
    IF IsErr(stock_mM) THEN stock_mM
    ELSE IF IsErr(target_mM) THEN target_mM
    ELSE IF IsErr(f_uL) THEN f_uL
    ELSE IF RLe(stock_mM, Zero) THEN Zero
    ELSE PyDiv(RMul(target_mM, f_uL), stock_mM)

calc_volume_uL_from_target(stock_conc, stock_unit, target_conc, target_unit, final_volume, final_vol_unit) ==
    calc_volume_body(to_mM(stock_conc, stock_unit), to_mM(target_conc, target_unit), to_uL(final_volume, final_vol_unit))

-----------------------------------------------------------------------------
(* The inputs of compute_reaction.                                         *)

\* The selectbox entry "(DB ...)" that utils.py:154 compares stock_sel with.
CustomSel == "(custom)"

\* Python's None.
None == "None"

\* stocks_df: the stock lookup, one record per table row.  "SZ" carries a
\* zero concentration; the id "SX" is in no row.
stocks_df ==
    << [id |-> "S100", name |-> "Tris", stock_conc |-> <<100, 1>>, stock_unit |-> "mM"],
       [id |-> "S50", name |-> "NaCl", stock_conc |-> <<1, 20>>, stock_unit |-> "M"],
       [id |-> "SZ", name |-> "Empty", stock_conc |-> Zero, stock_unit |-> "mM"] >>

StockIds == {stocks_df[k].id : k \in 1..Len(stocks_df)}

Row(sel, cname, csc, csu, tc, tu, vol, vu) ==
    [stock_sel |-> sel, custom_name |-> cname, custom_stock_conc |-> csc,
     custom_stock_unit |-> csu, target_conc |-> tc, target_unit |-> tu,
     vol |-> vol, vol_unit |-> vu, note |-> "n"]

\* A row that selects a persisted stock keeps the defaults of app.py:494-496
\* in its custom fields.
DbRow(sel, tc, tu, vol, vu) == Row(sel, "", Zero, "mM", tc, tu, vol, vu)

\* The rows a reaction is drawn from.
RowKinds ==
    { DbRow("S100", <<10, 1>>, "mM", Zero, "uL"),               \* target mode
      DbRow("S50", Zero, "mM", <<5, 1>>, "uL"),                 \* volume mode
      DbRow("S50", <<-1, 1>>, "nM", <<2001, 100000>>, "mL"),    \* volume mode, 20.01 uL given in mL, negative target
      DbRow("S100", <<5, 1>>, "mM", <<10, 1>>, "uL"),           \* both set
      DbRow("S100", Zero, "mM", Zero, "uL"),                    \* inert
      DbRow("SX", <<5, 1>>, "mM", <<10, 1>>, "uL"),             \* unknown id, both set
      DbRow("SX", Zero, "mM", Zero, "uL"),                      \* unknown id, inert
      DbRow("SZ", <<10, 1>>, "mM", Zero, "uL"),                 \* persisted, concentration 0
      Row(CustomSel, "", <<100, 1>>, "mM", <<5, 1>>, "mM", <<10, 1>>, "uL"),   \* custom, no name, both set
      Row(CustomSel, "dye", <<-1, 1>>, "mM", Zero, "mM", Zero, "uL"),          \* custom, concentration -1, inert
      Row(CustomSel, "dye", <<2, 1>>, "M", <<500, 1>>, "uM", <<-1, 1>>, "mL"), \* custom, target mode, mL
      Row(CustomSel, "dye", <<1, 1>>, "g/L", Zero, "mM", <<5, 1>>, "uL"),      \* custom, unsupported stock unit
      Row(CustomSel, "dye", <<100, 1>>, "mM", Zero, "mM", <<40000001, 2000000>>, "uL") } \* 20.0000005 uL

\* The final volumes: 20 uL, 0.02 mL, 0 uL, and an unsupported unit.
FinalVolumes ==
    { <<<<20, 1>>, "uL">>, <<<<1, 50>>, "mL">>, <<Zero, "uL">>, <<<<20, 1>>, "L">> }

MaxRows == 3

RowSeqs == UNION {[1..n -> RowKinds] : n \in 0..MaxRows}

Cards ==
    {[final_volume |-> f[1], final_vol_unit |-> f[2], rows |-> rs] :
        f \in FinalVolumes, rs \in RowSeqs}

\* st.session_state before the page has put anything into it.
NoSession ==
    [rx_cards |-> <<>>, current_plan_id |-> None, tmpl_rows |-> <<>>, creating_template |-> FALSE]

\* The tables without a row.  stock_id_nullable says whether the table
\* template_items accepts a row without a stock id.
EmptyDb ==
    [plans |-> <<>>, reactions |-> <<>>, reaction_items |-> <<>>,
     templates |-> <<>>, template_items |-> <<>>, stock_id_nullable |-> FALSE]

-----------------------------------------------------------------------------
(* utils.py:131-233, compute_reaction.                                     *)

\* f"Row {i}: ..." of utils.py:163, 171, 183.
RowError(idx, msg) == [row |-> idx, msg |-> msg]

\* utils.py:203-205, the message of the direct-volume cap.
ModeCapError == [row |-> 0, msg |-> "mode cap"]

\* utils.py:231, the message of the capacity check.
CapacityError == [row |-> 0, msg |-> "total volume exceeds final volume"]

\* ResolveStock without the "if not r['custom_name']: continue" of
\* utils.py:155-156: a custom row without a name is a reagent like another.
ResolveStock_NamelessKept(r) ==
    IF r.stock_sel = CustomSel
    THEN [kind |-> "ok", sc |-> r.custom_stock_conc, su |-> r.custom_stock_unit,
          label |-> r.custom_name, stock_id |-> None]
    ELSE LET found == SelectSeq(stocks_df, LAMBDA s : s.id = r.stock_sel)
         IN  IF found = <<>>
             THEN [kind |-> "invalid stock", sc |-> Zero, su |-> "", label |-> "", stock_id |-> None]
             ELSE [kind |-> "ok", sc |-> found[1].stock_conc, su |-> found[1].stock_unit,
                   label |-> found[1].name, stock_id |-> r.stock_sel]

\* utils.py:153-168: the stock a row selects.
ResolveStock(r) ==
    IF r.stock_sel = CustomSel
    THEN IF r.custom_name = ""
         THEN [kind |-> "skip", sc |-> Zero, su |-> "", label |-> "", stock_id |-> None]
         ELSE [kind |-> "ok", sc |-> r.custom_stock_conc, su |-> r.custom_stock_unit,
               label |-> r.custom_name, stock_id |-> None]
    ELSE LET db == SelectSeq(stocks_df, LAMBDA s : s.id = r.stock_sel)
         IN  IF db = <<>>
             THEN [kind |-> "invalid stock", sc |-> Zero, su |-> "", label |-> "", stock_id |-> None]
             ELSE [kind |-> "ok", sc |-> db[1].stock_conc, su |-> db[1].stock_unit,
                   label |-> db[1].name, stock_id |-> r.stock_sel]

Resolved(e, vol_used, tc2, tu2) == [exc |-> e, vol_used |-> vol_used, tc2 |-> tc2, tu2 |-> tu2]

\* utils.py:193-194, given v_uL of line 189 and vol_used of line 193.
TargetResolved(r, v_uL, vol_used) ==
    IF IsErr(v_uL) THEN Resolved(v_uL[1], Zero, Zero, "")
    ELSE IF IsErr(vol_used) THEN Resolved(vol_used[1], Zero, Zero, "")
    ELSE Resolved("none", vol_used, r.target_conc, r.target_unit)

\* utils.py:193: from_uL is reached only when line 189 returned.
TargetVolUsed(v_uL, vu) == IF IsErr(v_uL) THEN v_uL ELSE from_uL(v_uL, vu)

\* utils.py:189-194: a row with a target concentration.
TargetModeOf(r, v_uL) == TargetResolved(r, v_uL, TargetVolUsed(v_uL, r.vol_unit))

TargetMode(r, sc, su, c) ==
    TargetModeOf(r, calc_volume_uL_from_target(sc, su, r.target_conc, r.target_unit, c.final_volume, c.final_vol_unit))

\* EffectiveConc without the "if final_uL" guard of utils.py:197.
EffectiveConc_Unguarded(sc, su, v_uL, fuL) ==
    IF IsErr(to_mM(sc, su)) THEN to_mM(sc, su) ELSE PyDiv(RMul(to_mM(sc, su), v_uL), fuL)

\* The product and quotient of utils.py:197, given to_mM(sc, su).
EffectiveQuot(s_mM, v_uL, fuL) ==
    IF IsErr(s_mM) THEN s_mM ELSE PyDiv(RMul(s_mM, v_uL), fuL)

\* utils.py:197: (to_mM(sc, su) * v_uL) / final_uL if final_uL else 0.
EffectiveConc(sc, su, v_uL, fuL) ==
    IF fuL[1] # 0 THEN EffectiveQuot(to_mM(sc, su), v_uL, fuL) ELSE Zero

\* VolumeTarget without the conversion of utils.py:198: the effective
\* concentration stays in mM.
VolumeTarget_NoConvert(eff_mM, tu) == eff_mM

\* utils.py:198, reached only when lines 196-197 returned.
VolumeTarget(eff_mM, tu) == IF IsErr(eff_mM) THEN eff_mM ELSE from_mM(eff_mM, tu)

\* utils.py:198-200, given eff_mM of line 197 and tc2 of line 198.
VolumeResolved(r, tc2) ==
    IF IsErr(tc2) THEN Resolved(tc2[1], Zero, Zero, "")
    ELSE Resolved("none", r.vol, tc2, r.target_unit)

\* utils.py:197-200, given v_uL of line 196.
VolumeModeOf(r, sc, su, v_uL, fuL) ==
    IF IsErr(v_uL) THEN Resolved(v_uL[1], Zero, Zero, "")
    ELSE VolumeResolved(r, VolumeTarget(EffectiveConc(sc, su, v_uL, fuL), r.target_unit))

\* utils.py:196-200: a row with a direct volume.
VolumeMode(r, sc, su, fuL) == VolumeModeOf(r, sc, su, to_uL(r.vol, r.vol_unit), fuL)

\* utils.py:202-205.
ModeCapCheck(nt, nv, errs) ==
    IF nt > 0 /\ nv > 1 THEN Append(errs, ModeCapError) ELSE errs

\* ComputedLine with the row's custom_name kept for every line, without the
\* "if stock_id is None else None" of utils.py:227.
ComputedLine_KeepsCustomName(idx, r, stk, res, amt) ==
    [line_no |-> idx, reagent |-> stk.label, stock_conc |-> stk.sc, stock_unit |-> stk.su,
     target_conc |-> res.tc2, target_unit |-> res.tu2,
     volume |-> res.vol_used, volume_unit |-> r.vol_unit,
     amount |-> amt, amount_unit |-> "nmol", note |-> r.note,
     stock_id |-> stk.stock_id,
     custom_name |-> r.custom_name]

\* ComputedLine with the 0-based index of the row as its line_no.
ComputedLine_ZeroBased(idx, r, stk, res, amt) ==
    [line_no |-> idx - 1, reagent |-> stk.label, stock_conc |-> stk.sc, stock_unit |-> stk.su,
     target_conc |-> res.tc2, target_unit |-> res.tu2,
     volume |-> res.vol_used, volume_unit |-> r.vol_unit,
     amount |-> amt, amount_unit |-> "nmol", note |-> r.note,
     stock_id |-> stk.stock_id,
     custom_name |-> IF stk.stock_id = None THEN r.custom_name ELSE None]

\* utils.py:214-228.
ComputedLine(idx, r, stk, res, amt) ==
    [line_no |-> idx, reagent |-> stk.label, stock_conc |-> stk.sc, stock_unit |-> stk.su,
     target_conc |-> res.tc2, target_unit |-> res.tu2,
     volume |-> res.vol_used, volume_unit |-> r.vol_unit,
     amount |-> amt, amount_unit |-> "nmol", note |-> r.note,
     stock_id |-> stk.stock_id,
     custom_name |-> IF stk.stock_id = None THEN r.custom_name ELSE None]

Raised(st, e) == [st EXCEPT !.exc = e]

\* AppendLine with the total of utils.py:207 taken over vol_used as it is,
\* without the conversion to uL.
AppendLine_RawVolume(st, idx, r, stk, res, used_uL, amt) ==
    IF IsErr(used_uL) THEN Raised(st, used_uL[1])
    ELSE IF IsErr(amt) THEN Raised(st, amt[1])
    ELSE [st EXCEPT !.errors = ModeCapCheck(st.n_target_rows, st.n_volume_rows, @),
                    !.total_uL = RAdd(@, res.vol_used),
                    !.computed = Append(@, ComputedLine(idx, r, stk, res, amt))]

\* AppendLine with a "continue" after the cap error: the row is dropped.
AppendLine_CapSuppresses(st, idx, r, stk, res, used_uL, amt) ==
    IF IsErr(used_uL) THEN [st EXCEPT !.exc = used_uL[1]]
    ELSE IF IsErr(amt) THEN [st EXCEPT !.exc = amt[1]]
    ELSE IF st.n_target_rows > 0 /\ st.n_volume_rows > 1
    THEN [st EXCEPT !.errors = Append(@, ModeCapError)]
    ELSE [st EXCEPT !.total_uL = RAdd(@, used_uL),
                    !.computed = Append(@, ComputedLine(idx, r, stk, res, amt))]

\* utils.py:202-228, given to_uL(vol_used, vu) of line 207 and amt of line 209.
AppendLine(st, idx, r, stk, res, used_uL, amt) ==
    IF IsErr(used_uL) THEN Raised(st, used_uL[1])
    ELSE IF IsErr(amt) THEN Raised(st, amt[1])
    ELSE [st EXCEPT !.errors = ModeCapCheck(st.n_target_rows, st.n_volume_rows, @),
                    !.total_uL = RAdd(@, used_uL),
                    !.computed = Append(@, ComputedLine(idx, r, stk, res, amt))]

\* ComputeRow with the amount of utils.py:209-212 taken over the row's own
\* volume in place of the final volume.
ComputeRow_RowVolume(st, idx, r, stk, res, c) ==
    IF res.exc # "none" THEN Raised(st, res.exc)
    ELSE AppendLine(st, idx, r, stk, res, to_uL(res.vol_used, r.vol_unit),
                    amount_nmol_from_conc_vol(res.tc2, res.tu2, res.vol_used, r.vol_unit))

\* utils.py:188-228, given the volumes of lines 188-200: the cap check, the
\* total, the amount and the computed line, in the order of the source.
ComputeRow(st, idx, r, stk, res, c) ==
    IF res.exc # "none" THEN Raised(st, res.exc)
    ELSE AppendLine(st, idx, r, stk, res, to_uL(res.vol_used, r.vol_unit),
                    amount_nmol_from_conc_vol(res.tc2, res.tu2, c.final_volume, c.final_vol_unit))

\* utils.py:177-180.
CountModes(st, has_t, has_v) ==
    [st EXCEPT !.n_target_rows = IF has_t THEN @ + 1 ELSE @,
               !.n_volume_rows = IF has_v THEN @ + 1 ELSE @]

\* ModeBranch without the "has_t and has_v" rejection of utils.py:182-184.
ModeBranch_NoBothCheck(st, idx, r, stk, has_t, has_v, c, fuL) ==
    IF ~has_t /\ ~has_v THEN st
    ELSE IF has_t THEN ComputeRow(st, idx, r, stk, TargetMode(r, stk.sc, stk.su, c), c)
    ELSE ComputeRow(st, idx, r, stk, VolumeMode(r, stk.sc, stk.su, fuL), c)

\* ModeBranch without the inert "continue" of utils.py:185-186.
ModeBranch_NoInertCheck(st, idx, r, stk, has_t, has_v, c, fuL) ==
    IF has_t /\ has_v
    THEN [st EXCEPT !.errors = Append(@, RowError(idx, "target & volume both set"))]
    ELSE IF has_t THEN ComputeRow(st, idx, r, stk, TargetMode(r, stk.sc, stk.su, c), c)
    ELSE ComputeRow(st, idx, r, stk, VolumeMode(r, stk.sc, stk.su, fuL), c)

\* utils.py:182-200, given the counts of lines 177-180.
ModeBranch(st, idx, r, stk, has_t, has_v, c, fuL) ==
    IF has_t /\ has_v
    THEN [st EXCEPT !.errors = Append(@, RowError(idx, "target & volume both set"))]
    ELSE IF ~has_t /\ ~has_v THEN st
    ELSE IF has_t THEN ComputeRow(st, idx, r, stk, TargetMode(r, stk.sc, stk.su, c), c)
    ELSE ComputeRow(st, idx, r, stk, VolumeMode(r, stk.sc, stk.su, fuL), c)

\* utils.py:174-228, given has_t and has_v of lines 174-175.
ModeStepOf(st, idx, r, stk, has_t, has_v, c, fuL) ==
    ModeBranch(CountModes(st, has_t, has_v), idx, r, stk, has_t, has_v, c, fuL)

\* utils.py:174-228: the mode of a row whose stock is usable.
ModeStep(st, idx, r, stk, c, fuL) ==
    ModeStepOf(st, idx, r, stk, RGt(r.target_conc, Zero), RGt(r.vol, Zero), c, fuL)

\* LoopBodyOf without the "sc <= 0" rejection of utils.py:170-172.
LoopBodyOf_NoConcCheck(st, idx, r, stk, c, fuL) ==
    IF stk.kind = "skip" THEN st
    ELSE IF stk.kind = "invalid stock"
    THEN [st EXCEPT !.errors = Append(@, RowError(idx, "invalid stock"))]
    ELSE ModeStep(st, idx, r, stk, c, fuL)

\* LoopBodyOf with the mode counters of utils.py:177-180 updated before the
\* stock lookup, so that a row with an unknown stock is counted.
LoopBodyOf_UnknownCounted(st, idx, r, stk, c, fuL) ==
    IF stk.kind = "skip" THEN st
    ELSE IF stk.kind = "invalid stock"
    THEN [CountModes(st, RGt(r.target_conc, Zero), RGt(r.vol, Zero))
            EXCEPT !.errors = Append(@, RowError(idx, "invalid stock"))]
    ELSE IF RLe(stk.sc, Zero)
    THEN [st EXCEPT !.errors = Append(@, RowError(idx, "invalid stock concentration"))]
    ELSE ModeStep(st, idx, r, stk, c, fuL)

\* utils.py:155-228, given the stock of lines 153-168.
LoopBodyOf(st, idx, r, stk, c, fuL) ==
    IF stk.kind = "skip" THEN st
    ELSE IF stk.kind = "invalid stock"
    THEN [st EXCEPT !.errors = Append(@, RowError(idx, "invalid stock"))]
    ELSE IF RLe(stk.sc, Zero)
    THEN [st EXCEPT !.errors = Append(@, RowError(idx, "invalid stock concentration"))]
    ELSE ModeStep(st, idx, r, stk, c, fuL)

\* utils.py:148-228: one iteration of the loop over card["rows"].
LoopBody(st, idx, r, c, fuL) == LoopBodyOf(st, idx, r, ResolveStock(r), c, fuL)

\* CapacityCheck with an exact comparison in place of the 1e-6 tolerance.
CapacityCheck_NoTolerance(total, final, errs) ==
    IF RGt(total, final) THEN Append(errs, CapacityError) ELSE errs

\* utils.py:230-231.
CapacityCheck(total, final, errs) ==
    IF RGt(RSub(total, final), Epsilon) THEN Append(errs, CapacityError) ELSE errs

\* The locals of the running call, read from the state.
Locals ==
    [n_target_rows |-> n_target_rows, n_volume_rows |-> n_volume_rows, errors |-> errors,
     computed |-> computed, total_uL |-> total_uL, exc |-> exc]

\* Locals0 if the counters and lists outlived the call that filled them.
Locals0_Stale == Locals

\* utils.py:139-144.
Locals0 ==
    [n_target_rows |-> 0, n_volume_rows |-> 0, errors |-> <<>>, computed |-> <<>>,
     total_uL |-> Zero, exc |-> "none"]

-----------------------------------------------------------------------------
(* compute_reaction as a state machine: one step per loop iteration.       *)

InitReaction ==
    /\ card \in Cards
    /\ pc = "start"
    /\ i = 0
    /\ n_target_rows = 0
    /\ n_volume_rows = 0
    /\ errors = <<>>
    /\ computed = <<>>
    /\ total_uL = Zero
    /\ final_uL = Zero
    /\ exc = "none"
    /\ call = [fn |-> "none"]
    /\ ret = [exc |-> "none"]
    /\ session_state = NoSession
    /\ database = EmptyDb

\* utils.py:146, final_uL = to_uL(...) returns.
Enter ==
    /\ pc = "start"
    /\ ~IsErr(to_uL(card.final_volume, card.final_vol_unit))
    /\ final_uL' = to_uL(card.final_volume, card.final_vol_unit)
    /\ i' = 1
    /\ pc' = "loop"
    /\ UNCHANGED <<card, n_target_rows, n_volume_rows, errors, computed, total_uL, exc, call, ret, session_state, database>>

\* utils.py:146, to_uL raises.
EnterRaises ==
    /\ pc = "start"
    /\ IsErr(to_uL(card.final_volume, card.final_vol_unit))
    /\ exc' = to_uL(card.final_volume, card.final_vol_unit)[1]
    /\ pc' = "raised"
    /\ UNCHANGED <<card, i, n_target_rows, n_volume_rows, errors, computed, total_uL, final_uL, call, ret, session_state, database>>

\* The locals after an iteration that completed.
Store(st) ==
    /\ st.exc = "none"
    /\ n_target_rows' = st.n_target_rows
    /\ n_volume_rows' = st.n_volume_rows
    /\ errors' = st.errors
    /\ computed' = st.computed
    /\ total_uL' = st.total_uL

\* utils.py:148-228, an iteration that completes (by continue or by append).
RowStep ==
    /\ pc = "loop"
    /\ i <= Len(card.rows)
    /\ Store(LoopBody(Locals, i, card.rows[i], card, final_uL))
    /\ i' = i + 1
    /\ UNCHANGED <<card, pc, final_uL, exc, call, ret, session_state, database>>

\* The exception of an iteration in which a conversion raised.
Propagate(st) ==
    /\ st.exc # "none"
    /\ exc' = st.exc

\* utils.py:148-228, an iteration in which a conversion raises: the
\* exception leaves compute_reaction and the locals are dropped.
RowRaises ==
    /\ pc = "loop"
    /\ i <= Len(card.rows)
    /\ Propagate(LoopBody(Locals, i, card.rows[i], card, final_uL))
    /\ pc' = "raised"
    /\ UNCHANGED <<card, i, n_target_rows, n_volume_rows, errors, computed, total_uL, final_uL, call, ret, session_state, database>>

\* utils.py:230-233, after the last row.
Return ==
    /\ pc = "loop"
    /\ i > Len(card.rows)
    /\ errors' = CapacityCheck(total_uL, final_uL, errors)
    /\ pc' = "returned"
    /\ UNCHANGED <<card, i, n_target_rows, n_volume_rows, computed, total_uL, final_uL, exc, call, ret, session_state, database>>

Next == Enter \/ EnterRaises \/ RowStep \/ RowRaises \/ Return

Spec == InitReaction /\ [][Next]_vars

-----------------------------------------------------------------------------
(* compute_reaction as a function of its arguments, for the properties     *)
(* that compare two calls.                                                 *)

RECURSIVE RunRows(_, _, _, _)
\* utils.py:148-228, the loop from row idx on; an exception ends it.
RunRows(st, idx, c, fuL) ==
    IF st.exc # "none" \/ idx > Len(c.rows) THEN st
    ELSE RunRows(LoopBody(st, idx, c.rows[idx], c, fuL), idx + 1, c, fuL)

\* utils.py:230-233, the returned tuple, or the exception.
Outcome(st, fuL) ==
    IF st.exc # "none"
    THEN [exc |-> st.exc, errors |-> <<>>, computed |-> <<>>, total_uL |-> Zero, final_uL |-> Zero]
    ELSE [exc |-> "none", errors |-> CapacityCheck(st.total_uL, fuL, st.errors),
          computed |-> st.computed, total_uL |-> st.total_uL, final_uL |-> fuL]

\* utils.py:146-233, given final_uL of line 146.
compute_reaction_from(c, fuL) ==
    IF IsErr(fuL)
    THEN [exc |-> fuL[1], errors |-> <<>>, computed |-> <<>>, total_uL |-> Zero, final_uL |-> Zero]
    ELSE Outcome(RunRows(Locals0, 1, c, fuL), fuL)

compute_reaction(c) == compute_reaction_from(c, to_uL(c.final_volume, c.final_vol_unit))

-----------------------------------------------------------------------------
(* compute_reaction called twice on the same card, as app.py:1044 calls it *)
(* on every rerun of the page.  call holds the argument as it was passed   *)
(* and the number of the call, ret what the first call handed back.        *)

\* utils.py:233, what a finished call hands to its caller: the tuple, or
\* the exception without the locals.
Handed ==
    IF pc = "raised"
    THEN [exc |-> exc, errors |-> <<>>, computed |-> <<>>, total_uL |-> Zero, final_uL |-> Zero]
    ELSE [exc |-> "none", errors |-> errors, computed |-> computed,
          total_uL |-> total_uL, final_uL |-> final_uL]

\* The cards that are computed twice.
AgainCards == {c \in Cards : Len(c.rows) < MaxRows}

InitAgain ==
    /\ card \in AgainCards
    /\ call = [fn |-> "compute_reaction", arg |-> card, n |-> 1]
    /\ ret = [exc |-> "none"]
    /\ pc = "start"
    /\ i = 0
    /\ n_target_rows = 0
    /\ n_volume_rows = 0
    /\ errors = <<>>
    /\ computed = <<>>
    /\ total_uL = Zero
    /\ final_uL = Zero
    /\ exc = "none"
    /\ session_state = NoSession
    /\ database = EmptyDb

\* The locals of a call that starts.
Fresh(st) ==
    /\ n_target_rows' = st.n_target_rows
    /\ n_volume_rows' = st.n_volume_rows
    /\ errors' = st.errors
    /\ computed' = st.computed
    /\ total_uL' = st.total_uL
    /\ exc' = st.exc

\* app.py:1044 on the next rerun: the first call has ended and
\* compute_reaction is entered again with the same card (utils.py:139-144).
Again ==
    /\ pc \in {"returned", "raised"}
    /\ call.n = 1
    /\ ret' = Handed
    /\ call' = [call EXCEPT !.n = 2]
    /\ Fresh(Locals0)
    /\ pc' = "start"
    /\ i' = 0
    /\ final_uL' = Zero
    /\ UNCHANGED <<card, session_state, database>>

NextAgain == Next \/ Again

SpecAgain == InitAgain /\ [][NextAgain]_vars

-----------------------------------------------------------------------------
(* The conversion layer called on its own: one call per behaviour.         *)

\* Every unit string of the application, and one that is in no enumeration.
AllUnits == ConcUnits \cup VolUnits \cup AmountUnits \cup {"L"}

ConvValues == { Zero, <<5, 1>>, <<1, 8>>, <<-2, 1>> }

\* The units and values the six-argument function is called with.
FewUnits == {"mM", "uM", "uL", "L"}

FewValues == { Zero, <<5, 1>>, <<-2, 1>> }

Call1(fn) ==
    {[fn |-> fn, a |-> v, au |-> u, b |-> Zero, bu |-> "", c |-> Zero, cu |-> ""] :
        v \in ConvValues, u \in AllUnits}

Call2(fn) ==
    {[fn |-> fn, a |-> v, au |-> u, b |-> w, bu |-> x, c |-> Zero, cu |-> ""] :
        v \in ConvValues, u \in AllUnits, w \in ConvValues, x \in AllUnits}

Call3(fn) ==
    {[fn |-> fn, a |-> v, au |-> u, b |-> w, bu |-> x, c |-> y, cu |-> z] :
        v \in FewValues, u \in FewUnits, w \in FewValues, x \in FewUnits,
        y \in FewValues, z \in FewUnits}

ConvCalls ==
    Call1("to_mM") \cup Call1("from_mM") \cup Call1("to_uL") \cup Call1("from_uL")
    \cup Call2("amount_nmol_from_conc_vol") \cup Call2("conc_from_amount_volume")
    \cup Call3("calc_volume_uL_from_target")

InitConv ==
    /\ call \in ConvCalls
    /\ ret = [exc |-> "none", val |-> Zero, unit |-> ""]
    /\ pc = "conv_call"
    /\ card = [final_volume |-> Zero, final_vol_unit |-> "uL", rows |-> <<>>]
    /\ i = 0
    /\ n_target_rows = 0
    /\ n_volume_rows = 0
    /\ errors = <<>>
    /\ computed = <<>>
    /\ total_uL = Zero
    /\ final_uL = Zero
    /\ exc = "none"
    /\ session_state = NoSession
    /\ database = EmptyDb

\* What a call that yields one number returns or raises.
Returns(x) ==
    IF IsErr(x) THEN [exc |-> x[1], val |-> Zero, unit |-> ""]
    ELSE [exc |-> "none", val |-> x, unit |-> ""]

\* The call fn ends with ret = r.
Finish(fn, r) ==
    /\ pc = "conv_call"
    /\ call.fn = fn
    /\ ret' = r
    /\ pc' = "conv_done"
    /\ UNCHANGED <<card, i, n_target_rows, n_volume_rows, errors, computed, total_uL, final_uL, exc, call, session_state, database>>

Call_to_mM == Finish("to_mM", Returns(to_mM(call.a, call.au)))

Call_from_mM == Finish("from_mM", Returns(from_mM(call.a, call.au)))

Call_to_uL == Finish("to_uL", Returns(to_uL(call.a, call.au)))

Call_from_uL == Finish("from_uL", Returns(from_uL(call.a, call.au)))

Call_amount_nmol_from_conc_vol ==
    Finish("amount_nmol_from_conc_vol", Returns(amount_nmol_from_conc_vol(call.a, call.au, call.b, call.bu)))

Call_calc_volume_uL_from_target ==
    Finish("calc_volume_uL_from_target",
           Returns(calc_volume_uL_from_target(call.a, call.au, call.b, call.bu, call.c, call.cu)))

\* utils.py:51 returns the pair (conc_mM, "mM").
ReturnsPair(p) == [exc |-> "none", val |-> p[1], unit |-> p[2]]

Call_conc_from_amount_volume ==
    Finish("conc_from_amount_volume", ReturnsPair(conc_from_amount_volume(call.a, call.au, call.b, call.bu)))

NextConv ==
    \/ Call_to_mM
    \/ Call_from_mM
    \/ Call_to_uL
    \/ Call_from_uL
    \/ Call_amount_nmol_from_conc_vol
    \/ Call_calc_volume_uL_from_target
    \/ Call_conc_from_amount_volume

SpecConv == InitConv /\ [][NextConv]_vars

-----------------------------------------------------------------------------
(* The unit conversions of utils.py:54-91 on Python floats.  A float is an *)
(* IEEE-754 binary64 number >= 0: [m |-> bits, e |-> n] stands for the     *)
(* integer written by bits (most significant first, 53 bits, the first 1)  *)
(* times 2^n, and [m |-> <<>>, e |-> 0] for 0.0.  Products and quotients   *)
(* are rounded to nearest, ties to even, as the float operators * and /    *)
(* round them.  Subnormal numbers and overflow are out of the range of the *)
(* values used.                                                            *)

\* The width of the significand of a Python float.
Precision == 53

\* The w lowest binary digits of n, most significant first.
BitsOf(n, w) == [j \in 1..w |-> (n \div 2^(w - j)) % 2]

\* The float whose significand is hi * 2^26 + lo, times 2^e.
F64(hi, lo, e) == [m |-> BitsOf(hi, Precision - 26) \o BitsOf(lo, 26), e |-> e]

F64Zero == [m |-> <<>>, e |-> 0]

\* The digits b without leading zeros.
Strip(b) ==
    IF \A j \in 1..Len(b) : b[j] = 0 THEN <<>>
    ELSE SubSeq(b, CHOOSE j \in 1..Len(b) : b[j] = 1 /\ \A k \in 1..(j - 1) : b[k] = 0, Len(b))

\* The digits b in groups of ten (base 1024), n groups, zeros added in front.
Limbs(b, n) ==
    [g \in 1..n |->
        LET d == [j \in 1..10 |-> IF 10 * (g - 1) + j > 10 * n - Len(b)
                                   THEN b[10 * (g - 1) + j - (10 * n - Len(b))] ELSE 0]
        IN  d[1] * 512 + d[2] * 256 + d[3] * 128 + d[4] * 64 + d[5] * 32
            + d[6] * 16 + d[7] * 8 + d[8] * 4 + d[9] * 2 + d[10]]

\* The binary digits of the groups l.
Digits(l) == [j \in 1..(10 * Len(l)) |-> (l[(j - 1) \div 10 + 1] \div 2^(9 - ((j - 1) % 10))) % 2]

RECURSIVE MulLimbs(_, _, _)
\* The groups of l * k + carry * 1024^Len(l), for k < 2^20.
MulLimbs(l, k, carry) ==
    IF l = <<>> THEN << carry \div 1024, carry % 1024 >>
    ELSE Append(MulLimbs(SubSeq(l, 1, Len(l) - 1), k, (l[Len(l)] * k + carry) \div 1024),
                (l[Len(l)] * k + carry) % 1024)

RECURSIVE DivLimbs(_, _, _, _)
\* Long division of the groups l by k < 2^20, after the quotient groups q
\* and the remainder rem of the groups before them.
DivLimbs(l, k, rem, q) ==
    IF l = <<>> THEN [q |-> q, r |-> rem]
    ELSE DivLimbs(Tail(l), k, (rem * 1024 + Head(l)) % k, Append(q, (rem * 1024 + Head(l)) \div k))

\* The digits of b + 1, one digit longer when b is all ones.
Inc(b) ==
    IF \A j \in 1..Len(b) : b[j] = 1 THEN <<1>> \o [j \in 1..Len(b) |-> 0]
    ELSE LET z == CHOOSE j \in 1..Len(b) : b[j] = 0 /\ \A k \in (j + 1)..Len(b) : b[k] = 1
         IN  [j \in 1..Len(b) |-> IF j < z THEN b[j] ELSE IF j = z THEN 1 ELSE 0]

\* The significand kept from the digits b, rounded up or not.
Kept(b, up) == IF up THEN Inc(SubSeq(b, 1, Precision)) ELSE SubSeq(b, 1, Precision)

\* Round to nearest, ties to even: the digit after the kept ones, and what
\* follows it (sticky) or the last kept digit.
RoundsUp(b, sticky) ==
    /\ b[Precision + 1] = 1
    /\ \/ sticky
       \/ b[Precision] = 1
       \/ \E j \in (Precision + 2)..Len(b) : b[j] = 1

\* The float of the digits m times 2^e, m of Precision or Precision + 1 digits.
Renorm(m, e) ==
    IF Len(m) > Precision THEN [m |-> SubSeq(m, 1, Precision), e |-> e + 1] ELSE [m |-> m, e |-> e]

\* The float nearest to (b + fraction) * 2^e, b without leading zeros; sticky
\* says that the fraction is not 0.
RoundF64(b, sticky, e) ==
    IF Len(b) <= Precision
    THEN [m |-> b \o [j \in 1..(Precision - Len(b)) |-> 0], e |-> e - (Precision - Len(b))]
    ELSE Renorm(Kept(b, RoundsUp(b, sticky)), e + (Len(b) - Precision))

\* x * k for a float x and a whole number k that is a float.
fmul(x, k) ==
    IF x.m = <<>> THEN F64Zero ELSE RoundF64(Strip(Digits(MulLimbs(Limbs(x.m, 6), k, 0))), FALSE, x.e)

\* The float of the quotient d of long division, scaled by 2^e.
RoundQuot(d, e) == RoundF64(Strip(Digits(d.q)), d.r # 0, e)

\* x / k for a float x and a whole number k < 2^20 that is a float: the
\* quotient is taken to Precision + 2 digits or more before it is rounded.
fdiv(x, k) ==
    IF x.m = <<>> THEN F64Zero
    ELSE RoundQuot(DivLimbs(Limbs(x.m \o [j \in 1..22 |-> 0], 8), k, 0, <<>>), x.e - 22)

F64Returns(x) == [exc |-> "none", val |-> x, unit |-> ""]

F64Raises == [exc |-> "ValueError", val |-> F64Zero, unit |-> ""]

\* utils.py:54-63.
to_mM_f64(value, unit) ==
    IF unit = "M" THEN F64Returns(fmul(value, 1000))
    ELSE IF unit = "mM" THEN F64Returns(value)
    ELSE IF unit = "uM" THEN F64Returns(fdiv(value, 1000))
    ELSE IF unit = "nM" THEN F64Returns(fdiv(value, 1000000))
    ELSE F64Raises

\* from_mM with the factor of "nM" taken for "uM".
from_mM_f64_WrongFactor(value_mM, unit) ==
    IF unit = "M" THEN F64Returns(fdiv(value_mM, 1000))
    ELSE IF unit = "mM" THEN F64Returns(value_mM)
    ELSE IF unit = "uM" THEN F64Returns(fmul(value_mM, 1000000))
    ELSE IF unit = "nM" THEN F64Returns(fmul(value_mM, 1000000))
    ELSE F64Raises

\* utils.py:66-75.
from_mM_f64(value_mM, unit) ==
    IF unit = "M" THEN F64Returns(fdiv(value_mM, 1000))
    ELSE IF unit = "mM" THEN F64Returns(value_mM)
    ELSE IF unit = "uM" THEN F64Returns(fmul(value_mM, 1000))
    ELSE IF unit = "nM" THEN F64Returns(fmul(value_mM, 1000000))
    ELSE F64Raises

\* utils.py:78-83.
to_uL_f64(value, unit) ==
    IF unit = "uL" THEN F64Returns(value)
    ELSE IF unit = "mL" THEN F64Returns(fmul(value, 1000))
    ELSE F64Raises

\* utils.py:86-91.
from_uL_f64(value_uL, unit) ==
    IF unit = "uL" THEN F64Returns(value_uL)
    ELSE IF unit = "mL" THEN F64Returns(fdiv(value_uL, 1000))
    ELSE F64Raises

\* The floats 0.0, 5.0, 20.0, 0.125, 0.1, 12.5, 3.97, 0.97 and 0.0021.
F64Values ==
    { F64Zero, F64(83886080, 0, -50), F64(83886080, 0, -48), F64(67108864, 0, -55),
      F64(107374182, 26843546, -56), F64(104857600, 0, -49),
      F64(133211095, 2684355, -51), F64(130191196, 10737418, -53),
      F64(72155450, 38439957, -61) }

\* A conversion to the canonical unit followed by the conversion back.
F64Calls ==
    {[fn |-> "to_mM", a |-> v, au |-> u] : v \in F64Values, u \in ConcUnits \cup {"L"}}
    \cup {[fn |-> "to_uL", a |-> v, au |-> u] : v \in F64Values, u \in VolUnits \cup {"L"}}

InitF64 ==
    /\ call \in F64Calls
    /\ ret = [exc |-> "none", val |-> F64Zero, unit |-> ""]
    /\ pc = "f64_call"
    /\ card = [final_volume |-> Zero, final_vol_unit |-> "uL", rows |-> <<>>]
    /\ i = 0
    /\ n_target_rows = 0
    /\ n_volume_rows = 0
    /\ errors = <<>>
    /\ computed = <<>>
    /\ total_uL = Zero
    /\ final_uL = Zero
    /\ exc = "none"
    /\ session_state = NoSession
    /\ database = EmptyDb

\* The conversion fn to the canonical unit ends with ret = r.
Forward(fn, r) ==
    /\ pc = "f64_call"
    /\ call.fn = fn
    /\ ret' = r
    /\ pc' = IF r.exc = "none" THEN "f64_canonical" ELSE "f64_raised"
    /\ UNCHANGED <<card, i, n_target_rows, n_volume_rows, errors, computed, total_uL, final_uL, exc, call, session_state, database>>

\* The conversion back of fn's result ends with ret = r.
Back(fn, r) ==
    /\ pc = "f64_canonical"
    /\ call.fn = fn
    /\ ret' = r
    /\ pc' = "f64_back"
    /\ UNCHANGED <<card, i, n_target_rows, n_volume_rows, errors, computed, total_uL, final_uL, exc, call, session_state, database>>

F64_to_mM == Forward("to_mM", to_mM_f64(call.a, call.au))

F64_from_mM == Back("to_mM", from_mM_f64(ret.val, call.au))

F64_to_uL == Forward("to_uL", to_uL_f64(call.a, call.au))

F64_from_uL == Back("to_uL", from_uL_f64(ret.val, call.au))

NextF64 == F64_to_mM \/ F64_from_mM \/ F64_to_uL \/ F64_from_uL

SpecF64 == InitF64 /\ [][NextF64]_vars

-----------------------------------------------------------------------------
(* One row of compute_reaction on Python floats (utils.py:188-228), for a  *)
(* card whose numbers are whole and whose concentrations are in mM: a      *)
(* whole number n of the card stands for the float n.0, and the product of *)
(* two of them is the float of their product.                              *)

\* The float n.0 of a whole number n < 2^20.
Whole(n) == IF n = 0 THEN F64Zero ELSE RoundF64(Strip(BitsOf(n, 20)), FALSE, 0)

\* The row of a custom reagent "dye" of sc mM, with target tc mM or volume
\* vol in the unit vu.
WholeRow(sc, tc, vol, vu) ==
    [stock_sel |-> CustomSel, custom_name |-> "dye", custom_stock_conc |-> sc,
     custom_stock_unit |-> "mM", target_conc |-> tc, target_unit |-> "mM",
     vol |-> vol, vol_unit |-> vu, note |-> ""]

\* Cards of one row: a target-mode row or a volume-mode row, for a final
\* volume in uL.
WholeCards ==
    {[final_volume |-> fv, final_vol_unit |-> "uL", rows |-> <<WholeRow(sc, t[1], t[2], vu)>>] :
        fv \in {1, 20, 25, 50}, sc \in {1, 3, 7, 10, 49, 100},
        t \in {<<x, 0>> : x \in {1, 2, 5, 10}} \cup {<<0, x>> : x \in {1, 2, 5, 10}},
        vu \in VolUnits}

InitWhole ==
    /\ card \in WholeCards
    /\ pc = "f64_row"
    /\ call = [fn |-> "compute_reaction"]
    /\ ret = [exc |-> "none"]
    /\ i = 1
    /\ n_target_rows = 0
    /\ n_volume_rows = 0
    /\ errors = <<>>
    /\ computed = <<>>
    /\ total_uL = Zero
    /\ final_uL = Zero
    /\ exc = "none"
    /\ session_state = NoSession
    /\ database = EmptyDb

\* utils.py:214-228 for the row r of a custom reagent.
ComputedLine_f64(r, vol_used, tc2, amt) ==
    [line_no |-> 1, reagent |-> r.custom_name, stock_conc |-> Whole(r.custom_stock_conc),
     stock_unit |-> r.custom_stock_unit, target_conc |-> tc2, target_unit |-> r.target_unit,
     volume |-> vol_used, volume_unit |-> r.vol_unit, amount |-> amt, amount_unit |-> "nmol",
     note |-> r.note, stock_id |-> None, custom_name |-> r.custom_name]

\* utils.py:188-194 and 209-228: v_uL = (target_mM * final_uL) / stock_mM,
\* vol_used = from_uL(v_uL, vu), amt = c_mM * v_uL of the final volume.
TargetLine_f64(r, fv) ==
    ComputedLine_f64(r, from_uL_f64(fdiv(Whole(r.target_conc * fv), r.custom_stock_conc), r.vol_unit).val,
                     Whole(r.target_conc), Whole(r.target_conc * fv))

\* The volume of the row r in uL (utils.py:196), a whole number.
WholeVol_uL(r) == IF r.vol_unit = "mL" THEN r.vol * 1000 ELSE r.vol

\* VolumeLine_f64 with the amount of utils.py:209-212 taken over the row's
\* own volume in place of the final volume.
VolumeLine_f64_RowVolume(r, fv) ==
    ComputedLine_f64(r, Whole(r.vol),
                     from_mM_f64(fdiv(Whole(r.custom_stock_conc * WholeVol_uL(r)), fv), r.target_unit).val,
                     fmul(fdiv(Whole(r.custom_stock_conc * WholeVol_uL(r)), fv), WholeVol_uL(r)))

\* utils.py:196-200 and 209-228: eff_mM = (stock_mM * v_uL) / final_uL,
\* tc2 = from_mM(eff_mM, tu), amt = to_mM(tc2, tu) * final_uL.
VolumeLine_f64(r, fv) ==
    ComputedLine_f64(r, Whole(r.vol),
                     from_mM_f64(fdiv(Whole(r.custom_stock_conc * WholeVol_uL(r)), fv), r.target_unit).val,
                     fmul(fdiv(Whole(r.custom_stock_conc * WholeVol_uL(r)), fv), fv))

\* The iteration over the row ends with the line l appended.
Appended(l) ==
    /\ computed' = <<l>>
    /\ i' = 2
    /\ pc' = "f64_line"
    /\ UNCHANGED <<card, errors, total_uL, final_uL, exc, call, ret, session_state, database>>

\* utils.py:174-228 for a row with a target concentration.
F64_TargetRow ==
    /\ pc = "f64_row"
    /\ card.rows[1].target_conc > 0
    /\ n_target_rows' = 1
    /\ n_volume_rows' = 0
    /\ Appended(TargetLine_f64(card.rows[1], card.final_volume))

\* utils.py:174-228 for a row with a direct volume.
F64_VolumeRow ==
    /\ pc = "f64_row"
    /\ card.rows[1].vol > 0
    /\ n_target_rows' = 0
    /\ n_volume_rows' = 1
    /\ Appended(VolumeLine_f64(card.rows[1], card.final_volume))

NextWhole == F64_TargetRow \/ F64_VolumeRow

SpecWhole == InitWhole /\ [][NextWhole]_vars

-----------------------------------------------------------------------------
(* Saving templates: the buttons "Create template" and "Save changes" of   *)
(* the Template Manager (app.py:377-485) and save_template_from_computed   *)
(* (db_utils_pg.py:396-448, db_utils.py:252-312).  One click or call per   *)
(* behaviour.  The schema of the tables written through db_utils_pg is in  *)
(* no source file: database.stock_id_nullable is either value.             *)

\* app.py:490-502.
empty_row == [Row(CustomSel, "", Zero, "mM", Zero, "mM", Zero, "uL") EXCEPT !.note = ""]

\* "x or None" for a number x; <<>> stands for the NULL that is stored.
OrNone(x) == IF x = Zero THEN <<>> ELSE x

\* The rows of the editor (app.py:239-318): it has no widget for
\* custom_name, so that a custom row keeps the empty name.
TmplRowKinds ==
    { empty_row,
      DbRow("S100", <<10, 1>>, "mM", Zero, "uL"),
      DbRow("S50", Zero, "mM", <<5, 1>>, "uL") }

MaxTmplRows == 2

TmplRowSeqs == UNION {[1..n -> TmplRowKinds] : n \in 0..MaxTmplRows}

\* The text of the input "Template name".
TemplateNames == {"", "T"}

\* The template selected for editing, and the uuid4 of a new one.
OldTemplateId == "t0"

NewTemplateId == "t1"

\* The computed lists save_template_from_computed is called with: those of
\* the cards of up to MaxTmplRows rows with a persisted target-mode row, a
\* persisted volume-mode row or a named custom row.
ComputedInputs ==
    { compute_reaction([final_volume |-> <<20, 1>>, final_vol_unit |-> "uL", rows |-> rs]).computed :
        rs \in UNION {[1..n -> { DbRow("S100", <<10, 1>>, "mM", Zero, "uL"),
                                 DbRow("S50", Zero, "mM", <<5, 1>>, "uL"),
                                 Row(CustomSel, "dye", <<100, 1>>, "mM", Zero, "mM", <<5, 1>>, "uL") }]
                      : n \in 0..MaxTmplRows} }

InitTemplates ==
    /\ pc = "Templates"
    /\ session_state \in {[NoSession EXCEPT !.tmpl_rows = rs, !.creating_template = b] :
                             rs \in TmplRowSeqs, b \in BOOLEAN}
    /\ database \in {[EmptyDb EXCEPT !.templates = <<[template_id |-> OldTemplateId, name |-> "T0"]>>,
                                    !.template_items = <<[template_id |-> OldTemplateId, line_no |-> 1,
                                                          stock_id |-> "S100"]>>,
                                    !.stock_id_nullable = b] : b \in BOOLEAN}
    /\ ret = [exc |-> "none", kind |-> "none"]
    /\ call = [fn |-> "none"]
    /\ card = [final_volume |-> Zero, final_vol_unit |-> "uL", rows |-> <<>>]
    /\ i = 0
    /\ n_target_rows = 0
    /\ n_volume_rows = 0
    /\ errors = <<>>
    /\ computed = <<>>
    /\ total_uL = Zero
    /\ final_uL = Zero
    /\ exc = "none"

\* app.py:415-425 and 458-468: the parameters of one INSERT INTO template_items.
TemplateItem(tid, ln, r) ==
    [template_id |-> tid, line_no |-> ln,
     stock_id |-> IF r.stock_sel = CustomSel THEN None ELSE r.stock_sel,
     example_target |-> OrNone(r.target_conc), example_target_unit |-> r.target_unit,
     example_volume |-> OrNone(r.vol), example_volume_unit |-> r.vol_unit,
     item_note |-> r.note]

\* app.py:404 and 447: for i, r in enumerate(tmpl_rows, start=1).
TemplateItems(tid, rows) == [k \in 1..Len(rows) |-> TemplateItem(tid, k, rows[k])]

\* db_utils_pg.py:37-45 for a row of template_items: the INSERT raises when
\* the row has no stock id and the column does not accept that.
InsertRaises(it) == it.stock_id = None /\ ~database.stock_id_nullable

\* The rows that are written before an INSERT raises: every execute commits
\* on its own (db_utils_pg.py:41).
Written(items) ==
    IF \E k \in 1..Len(items) : InsertRaises(items[k])
    THEN SubSeq(items, 1, (CHOOSE k \in 1..Len(items) :
                              InsertRaises(items[k]) /\ \A j \in 1..(k - 1) : ~InsertRaises(items[j])) - 1)
    ELSE items

\* What the click shows, and the exception that ends the run of the page.
Shows(kind) == [exc |-> "none", kind |-> kind]

Uncaught(e) == [exc |-> e, kind |-> "exception"]

\* app.py:379-381: the name is empty, st.error and st.stop.
CreateStops ==
    /\ ret' = Shows("Template name is required.")
    /\ UNCHANGED <<session_state, database>>

\* app.py:384-438, given the items of lines 404-425.
CreateWrites(new_name, items) ==
    /\ database' = [database EXCEPT !.templates = Append(@, [template_id |-> NewTemplateId, name |-> new_name]),
                                    !.template_items = @ \o Written(items)]
    /\ IF Written(items) # items
       THEN ret' = Uncaught("IntegrityError") /\ UNCHANGED session_state
       ELSE /\ ret' = Shows("New template created.")
            /\ session_state' = [session_state EXCEPT !.creating_template = FALSE, !.tmpl_rows = <<>>]

\* app.py:377-438, the button "Create template".
CreateTemplate ==
    /\ pc = "Templates"
    /\ session_state.creating_template
    /\ \E new_name \in TemplateNames :
          IF new_name = "" THEN CreateStops
          ELSE CreateWrites(new_name, TemplateItems(NewTemplateId, session_state.tmpl_rows))
    /\ pc' = "done"
    /\ UNCHANGED <<card, i, n_target_rows, n_volume_rows, errors, computed, total_uL, final_uL, exc, call>>

\* app.py:445-485, given the items of lines 447-468: the rows of the
\* template are deleted, then written anew.
SaveWrites(items) ==
    /\ database' = [database EXCEPT !.template_items =
                        SelectSeq(@, LAMBDA it : it.template_id # OldTemplateId) \o Written(items)]
    /\ ret' = IF Written(items) # items THEN Uncaught("IntegrityError") ELSE Shows("Template updated.")
    /\ UNCHANGED session_state

\* app.py:443-485, the button "Save changes".
SaveChanges ==
    /\ pc = "Templates"
    /\ ~session_state.creating_template
    /\ SaveWrites(TemplateItems(OldTemplateId, session_state.tmpl_rows))
    /\ pc' = "done"
    /\ UNCHANGED <<card, i, n_target_rows, n_volume_rows, errors, computed, total_uL, final_uL, exc, call>>

\* db_utils_pg.py:432-444: the parameters of one INSERT INTO template_items.
ComputedItem_pg(tid, it) ==
    [template_id |-> tid, stock_id |-> it.stock_id,
     example_target |-> OrNone(it.target_conc), example_target_unit |-> it.target_unit,
     example_volume |-> OrNone(it.volume), example_volume_unit |-> it.volume_unit,
     example_amount |-> it.amount, example_amount_unit |-> it.amount_unit, item_note |-> it.note]

\* db_utils_pg.py:396-448.
save_template_from_computed_pg(tmpl_name, lines) ==
    IF tmpl_name = "" THEN [ok |-> FALSE, templates |-> <<>>, items |-> <<>>]
    ELSE IF \E k \in 1..Len(lines) : lines[k].stock_id = None
    THEN [ok |-> FALSE, templates |-> <<>>, items |-> <<>>]
    ELSE [ok |-> TRUE, templates |-> <<[template_id |-> NewTemplateId, name |-> tmpl_name]>>,
          items |-> [k \in 1..Len(lines) |-> ComputedItem_pg(NewTemplateId, lines[k])]]

\* db_utils.py:296-306: the parameters of one INSERT INTO template_items.
ComputedItem(tid, it) ==
    [template_id |-> tid, stock_id |-> it.stock_id,
     example_target |-> IF RGt(it.target_conc, Zero) THEN it.target_conc ELSE <<>>,
     example_target_unit |-> IF RGt(it.target_conc, Zero) THEN it.target_unit ELSE "",
     example_volume |-> IF RGt(it.volume, Zero) THEN it.volume ELSE <<>>,
     example_volume_unit |-> IF RGt(it.volume, Zero) THEN it.volume_unit ELSE "",
     example_amount |-> it.amount, example_amount_unit |-> it.amount_unit, item_note |-> it.note]

\* db_utils.py:252-312.
save_template_from_computed(tmpl_name, lines) ==
    IF tmpl_name = "" THEN [ok |-> FALSE, templates |-> <<>>, items |-> <<>>]
    ELSE IF \E k \in 1..Len(lines) : lines[k].stock_id = None
    THEN [ok |-> FALSE, templates |-> <<>>, items |-> <<>>]
    ELSE IF \E j, k \in 1..Len(lines) : j < k /\ lines[j].stock_id = lines[k].stock_id
    THEN [ok |-> FALSE, templates |-> <<>>, items |-> <<>>]
    ELSE [ok |-> TRUE, templates |-> <<[template_id |-> NewTemplateId, name |-> tmpl_name]>>,
          items |-> [k \in 1..Len(lines) |-> ComputedItem(NewTemplateId, lines[k])]]

\* A call of save_template_from_computed has ended with the result r.
TemplateSaved(fn, r) ==
    /\ pc = "Templates"
    /\ call' = [fn |-> fn]
    /\ ret' = [exc |-> "none", kind |-> IF r.ok THEN "Saved template" ELSE "not saved"]
    /\ database' = [database EXCEPT !.templates = @ \o r.templates, !.template_items = @ \o r.items]
    /\ pc' = "done"
    /\ UNCHANGED <<card, i, n_target_rows, n_volume_rows, errors, computed, total_uL, final_uL, exc, session_state>>

Call_save_template_from_computed_pg ==
    \E tmpl_name \in TemplateNames, lines \in ComputedInputs :
        TemplateSaved("db_utils_pg.save_template_from_computed", save_template_from_computed_pg(tmpl_name, lines))

Call_save_template_from_computed ==
    \E tmpl_name \in TemplateNames, lines \in ComputedInputs :
        TemplateSaved("db_utils.save_template_from_computed", save_template_from_computed(tmpl_name, lines))

NextTemplates ==
    \/ CreateTemplate
    \/ SaveChanges
    \/ Call_save_template_from_computed_pg
    \/ Call_save_template_from_computed

SpecTemplates == InitTemplates /\ [][NextTemplates]_vars

-----------------------------------------------------------------------------
(* The page "New Reaction": the buttons "Save ALL included reactions to    *)
(* DB" (app.py:1084-1123, save_all_to_db app.py:521-593) and "Export       *)
(* reactions to Excel" (app.py:1126-1176) on the reaction cards of the     *)
(* session.  One click per behaviour.  The units of a card come from       *)
(* selectboxes over VOL_UNITS and CONC_UNITS (app.py:917, 1009, 1028,      *)
(* 1035), so that compute_reaction returns for every card.                 *)

\* The rows of the cards of the page: the row of a new card; a target-mode
\* row; a rejected row before a volume-mode row; and volume-mode rows of
\* 20 uL, 20.01 uL, 19.9999995 uL and 19.9996 uL.
PageRows ==
    { <<empty_row>>,
      <<DbRow("S100", <<10, 1>>, "mM", Zero, "uL")>>,
      <<DbRow("S100", <<5, 1>>, "mM", <<10, 1>>, "uL"), DbRow("S50", Zero, "mM", <<5, 1>>, "uL")>>,
      <<DbRow("S50", Zero, "mM", <<20, 1>>, "uL")>>,
      <<DbRow("S50", Zero, "mM", <<2001, 100000>>, "mL")>>,
      <<DbRow("S50", Zero, "mM", <<39999999, 2000000>>, "uL")>>,
      <<DbRow("S50", Zero, "mM", <<49999, 2500>>, "uL")>> }

\* app.py:506-517 with the rows and the checkbox "Include" as the user left
\* them; the name "Reaction k" is the number k.
ReactionCard(k, rs, inc) ==
    [name |-> k, final_volume |-> <<20, 1>>, final_vol_unit |-> "uL", rows |-> rs,
     include_in_save_all |-> inc]

MaxCards == 2

\* st.session_state["rx_cards"]: one card or more (app.py:874-875).
RxCardLists ==
    UNION {{[k \in 1..n |-> ReactionCard(k, f[k][1], f[k][2])] : f \in [1..n -> PageRows \X BOOLEAN]}
           : n \in 1..MaxCards}

\* The plan that is open, if one is, and the uuid4 of a new plan.
OpenPlanId == "plan-0"

NewPlanId == "plan-1"

InitPage ==
    /\ pc = "New Reaction"
    /\ session_state \in {[NoSession EXCEPT !.rx_cards = cs, !.current_plan_id = p] :
                             cs \in RxCardLists, p \in {None, OpenPlanId}}
    /\ database = EmptyDb
    /\ ret = [exc |-> "none", kind |-> "none"]
    /\ call = [fn |-> "none"]
    /\ card = [final_volume |-> Zero, final_vol_unit |-> "uL", rows |-> <<>>]
    /\ i = 0
    /\ n_target_rows = 0
    /\ n_volume_rows = 0
    /\ errors = <<>>
    /\ computed = <<>>
    /\ total_uL = Zero
    /\ final_uL = Zero
    /\ exc = "none"

\* app.py:1044-1045: all_card_results, one result per card.
all_card_results(cards) == [k \in 1..Len(cards) |-> compute_reaction(cards[k])]

\* The positions 1..n in order.
Positions(n) == [k \in 1..n |-> k]

\* Problems without the checks of app.py:1093-1098: nothing is a problem.
Problems_None(cards, results) == <<>>

\* app.py:1089-1098: the included cards with errors or without computed rows.
Problems(cards, results) ==
    SelectSeq(Positions(Len(cards)),
              LAMBDA k : cards[k].include_in_save_all
                         /\ (results[k].errors # <<>> \/ results[k].computed = <<>>))

\* app.py:1089-1099: the positions of the cards of cards_to_save.
CardsToSave(cards, results) ==
    SelectSeq(Positions(Len(cards)),
              LAMBDA k : cards[k].include_in_save_all
                         /\ results[k].errors = <<>> /\ results[k].computed # <<>>)

\* app.py:540-546: INSERT INTO plans, when no plan is open.
PlanInserts(plan_id) ==
    IF plan_id = None THEN <<[table |-> "plans", plan_id |-> NewPlanId]>> ELSE <<>>

\* app.py:539: pid.
PlanIdOf(plan_id) == IF plan_id = None THEN NewPlanId ELSE plan_id

\* app.py:551-569: INSERT INTO reactions; the uuid4 of the reaction is its
\* number idx, the title the name of the card (no title prefix).
ReactionInsert(idx, c, pid) ==
    [table |-> "reactions", reaction_id |-> idx, title |-> c.name,
     final_volume |-> c.final_volume, final_volume_unit |-> c.final_vol_unit, plan_id |-> pid]

\* app.py:572-588: one INSERT INTO reaction_items; "note or None" stores the
\* empty note as NULL, float(x or 0.0) leaves a number as it is.
ItemInsert(idx, it) ==
    [table |-> "reaction_items", reaction_id |-> idx, line_no |-> it.line_no,
     stock_id |-> it.stock_id, custom_name |-> it.custom_name,
     stock_conc |-> it.stock_conc, stock_unit |-> it.stock_unit,
     target_conc |-> it.target_conc, target_conc_unit |-> it.target_unit,
     volume |-> it.volume, volume_unit |-> it.volume_unit,
     amount |-> it.amount, amount_unit |-> it.amount_unit,
     note |-> IF it.note = "" THEN None ELSE it.note]

\* app.py:571-588: INSERT INTO reaction_items for the computed lines.
ItemInserts(idx, lines) == [j \in 1..Len(lines) |-> ItemInsert(idx, lines[j])]

RECURSIVE CardInserts(_, _, _, _, _)
\* app.py:550-588: the INSERTs of the cards of cards_to_save from idx on.
CardInserts(idx, tosave, cards, results, pid) ==
    IF idx > Len(tosave) THEN <<>>
    ELSE <<ReactionInsert(idx, cards[tosave[idx]], pid)>>
         \o ItemInserts(idx, results[tosave[idx]].computed)
         \o CardInserts(idx + 1, tosave, cards, results, pid)

\* The rows of the table t among the statements that were executed.
RowsOf(stmts, t) == SelectSeq(stmts, LAMBDA x : x.table = t)

\* db_utils_pg.py:37-45: every execute commits on its own.
Executed(stmts) ==
    [database EXCEPT !.plans = @ \o RowsOf(stmts, "plans"),
                     !.reactions = @ \o RowsOf(stmts, "reactions"),
                     !.reaction_items = @ \o RowsOf(stmts, "reaction_items")]

\* app.py:521-593 when cards_to_save is not empty, given the INSERTs in
\* order; the statement number fail raises (none when fail = 0).  The INSERT
\* of the plan is outside the try of app.py:549.
SaveOutcome(plan_id, stmts, fail) ==
    IF fail = 0 THEN [exc |-> "none", ok |-> TRUE, pid |-> PlanIdOf(plan_id), done |-> stmts]
    ELSE IF fail = 1 /\ plan_id = None
    THEN [exc |-> "OperationalError", ok |-> FALSE, pid |-> None, done |-> <<>>]
    ELSE [exc |-> "none", ok |-> FALSE, pid |-> PlanIdOf(plan_id), done |-> SubSeq(stmts, 1, fail - 1)]

\* app.py:521-593, save_all_to_db.
save_all_to_db(plan_id, tosave, cards, results, fail) ==
    IF Len(tosave) = 0
    THEN [exc |-> "none", ok |-> FALSE, pid |-> IF plan_id = None THEN "" ELSE plan_id, done |-> <<>>]
    ELSE SaveOutcome(plan_id, PlanInserts(plan_id) \o CardInserts(1, tosave, cards, results, PlanIdOf(plan_id)), fail)

\* The number of statements of the call, for the choice of the failing one.
StatementCount(plan_id, tosave, results) ==
    Len(PlanInserts(plan_id)) + Len(tosave)
    + Cardinality({<<k, j>> \in (1..Len(tosave)) \X (1..MaxRows) : j <= Len(results[tosave[k]].computed)})

\* app.py:1116-1123, given the result of save_all_to_db.
AfterSave(r) ==
    /\ database' = Executed(r.done)
    /\ ret' = IF r.exc # "none" THEN Uncaught(r.exc) ELSE Shows(IF r.ok THEN "Saved" ELSE "not saved")
    /\ session_state' = IF r.ok THEN [session_state EXCEPT !.current_plan_id = r.pid] ELSE session_state

\* app.py:1101-1123, given all_card_results.
SaveAllOf(cards, results) ==
    IF Problems(cards, results) # <<>>
    THEN /\ ret' = Shows("problems")
         /\ UNCHANGED <<session_state, database>>
    ELSE \E fail \in 0..StatementCount(session_state.current_plan_id, CardsToSave(cards, results), results) :
            AfterSave(save_all_to_db(session_state.current_plan_id, CardsToSave(cards, results),
                                     cards, results, fail))

\* app.py:1084-1123, the button "Save ALL included reactions to DB".
SaveAll ==
    /\ pc = "New Reaction"
    /\ SaveAllOf(session_state.rx_cards, all_card_results(session_state.rx_cards))
    /\ pc' = "done"
    /\ UNCHANGED <<card, i, n_target_rows, n_volume_rows, errors, computed, total_uL, final_uL, exc, call>>

\* round(x, 3) for x >= 0: the nearest multiple of 1/1000, ties to even.
Round3Of(q, r, d) ==
    IF 2 * r > d \/ (2 * r = d /\ q % 2 = 1) THEN Norm(q + 1, 1000) ELSE Norm(q, 1000)

Round3(x) == Round3Of((1000 * x[1]) \div x[2], (1000 * x[1]) % x[2], x[2])

\* The line "D.W." of app.py:1155-1167.
FillLine(fill_uL) ==
    [line_no |-> "", reagent |-> "D.W.", volume |-> Round3(fill_uL), volume_unit |-> "uL",
     note |-> "Fill to final volume"]

\* ExportLines with the comparison fill_uL > 0 in place of app.py:1152.
ExportLines_NoTolerance(lines, fill_uL) ==
    IF RGt(fill_uL, Zero) THEN lines \o <<FillLine(fill_uL)>> ELSE lines

\* app.py:1150-1168: the lines of one reaction of the workbook.
ExportLines(lines, fill_uL) ==
    IF RGt(fill_uL, Epsilon) THEN lines \o <<FillLine(fill_uL)>> ELSE lines

\* app.py:1127-1171: export_data, one entry per card with computed rows.
ExportData(cards, results) ==
    LET with == SelectSeq(Positions(Len(cards)), LAMBDA k : results[k].computed # <<>>)
    IN  [j \in 1..Len(with) |->
            [name |-> cards[with[j]].name,
             df |-> ExportLines(results[with[j]].computed,
                                RSub(results[with[j]].final_uL, results[with[j]].total_uL))]]

\* app.py:1126-1176, the button "Export reactions to Excel".
Export ==
    /\ pc = "New Reaction"
    /\ ret' = [exc |-> "none", kind |-> "export",
               export_data |-> ExportData(session_state.rx_cards, all_card_results(session_state.rx_cards))]
    /\ pc' = "done"
    /\ UNCHANGED <<card, i, n_target_rows, n_volume_rows, errors, computed, total_uL, final_uL, exc, call,
                   session_state, database>>

NextPage == SaveAll \/ Export

SpecPage == InitPage /\ [][NextPage]_vars

-----------------------------------------------------------------------------
(* The list of reaction cards of the page "New Reaction" and the buttons   *)
(* that change it: "Remove last" (app.py:879-881), "Copy Reaction"         *)
(* (app.py:902-906), the delete button of a card (app.py:908-910) and "Add *)
(* Reaction" (app.py:1068-1072).  Every button ends with st.rerun(), so    *)
(* that one click is one step.  The name "Reaction n" followed by c times  *)
(* " (copy)" is the pair <<n, c>>.                                         *)

MaxListed == 3

MaxCopies == 2

\* app.py:506-517.
new_reaction_card(idx) == ReactionCard(<<idx + 1, 0>>, <<empty_row>>, TRUE)

\* app.py:857-858 and 874-875: the page is opened for the first time.
InitCards ==
    /\ pc = "New Reaction"
    /\ session_state = [NoSession EXCEPT !.rx_cards = <<new_reaction_card(0)>>]
    /\ database = EmptyDb
    /\ ret = [exc |-> "none", kind |-> "none"]
    /\ call = [fn |-> "none"]
    /\ card = [final_volume |-> Zero, final_vol_unit |-> "uL", rows |-> <<>>]
    /\ i = 0
    /\ n_target_rows = 0
    /\ n_volume_rows = 0
    /\ errors = <<>>
    /\ computed = <<>>
    /\ total_uL = Zero
    /\ final_uL = Zero
    /\ exc = "none"

\* The page reruns with the cards cs.
Rerun(cs) ==
    /\ pc = "New Reaction"
    /\ session_state' = [session_state EXCEPT !.rx_cards = cs]
    /\ UNCHANGED <<card, pc, i, n_target_rows, n_volume_rows, errors, computed, total_uL, final_uL, exc,
                   call, ret, database>>

\* app.py:879-881, the button "Remove last".
RemoveLast ==
    /\ Len(session_state.rx_cards) > 1
    /\ Rerun(SubSeq(session_state.rx_cards, 1, Len(session_state.rx_cards) - 1))

\* list.insert(k + 1, c) of app.py:903, with positions counted from 1.
Inserted(cs, k, c) == SubSeq(cs, 1, k) \o <<c>> \o SubSeq(cs, k + 1, Len(cs))

\* app.py:902-906, the button "Copy Reaction" of card k.
CopyReaction ==
    \E k \in 1..Len(session_state.rx_cards) :
        /\ Len(session_state.rx_cards) < MaxListed
        /\ session_state.rx_cards[k].name[2] < MaxCopies
        /\ Rerun(Inserted(session_state.rx_cards, k,
                          [session_state.rx_cards[k] EXCEPT !.name = <<@[1], @[2] + 1>>]))

\* list.pop(k) of app.py:909, with positions counted from 1.
Popped(cs, k) == SubSeq(cs, 1, k - 1) \o SubSeq(cs, k + 1, Len(cs))

\* DeleteCard without the "len(rx_cards) > 1" of app.py:908.
DeleteCard_Always(k) == Rerun(Popped(session_state.rx_cards, k))

\* app.py:908-910, the delete button of card k.
DeleteCard(k) ==
    /\ Len(session_state.rx_cards) > 1
    /\ Rerun(Popped(session_state.rx_cards, k))

\* The delete button of one of the cards.
DeleteReaction == \E k \in 1..Len(session_state.rx_cards) : DeleteCard(k)

\* app.py:1068-1072, the button "Add Reaction".
AddReaction ==
    /\ Len(session_state.rx_cards) < MaxListed
    /\ Rerun(Append(session_state.rx_cards, new_reaction_card(Len(session_state.rx_cards))))

NextCards == RemoveLast \/ CopyReaction \/ DeleteReaction \/ AddReaction

SpecCards == InitCards /\ [][NextCards]_vars

-----------------------------------------------------------------------------
(* Vocabulary of the properties.                                           *)

CountOf(seq, e) == Cardinality({k \in 1..Len(seq) : seq[k] = e})

\* The stock of row r resolves and its concentration is > 0.
UsableStock(r) ==
    IF r.stock_sel = CustomSel
    THEN r.custom_name # "" /\ RGt(r.custom_stock_conc, Zero)
    ELSE \E k \in 1..Len(stocks_df) :
            stocks_df[k].id = r.stock_sel /\ RGt(stocks_df[k].stock_conc, Zero)

UnknownStock(r) == r.stock_sel # CustomSel /\ r.stock_sel \notin StockIds

Nameless(r) == r.stock_sel = CustomSel /\ r.custom_name = ""

BothSet(r) == RGt(r.target_conc, Zero) /\ RGt(r.vol, Zero)

Inert(r) == r.target_conc = Zero /\ r.vol = Zero

IsTargetRow(r) == UsableStock(r) /\ RGt(r.target_conc, Zero) /\ ~RGt(r.vol, Zero)

IsVolumeRow(r) == UsableStock(r) /\ RGt(r.vol, Zero) /\ ~RGt(r.target_conc, Zero)

NumTargetRows == Cardinality({k \in 1..Len(card.rows) : IsTargetRow(card.rows[k])})

NumVolumeRows == Cardinality({k \in 1..Len(card.rows) : IsVolumeRow(card.rows[k])})

\* The line l carries what row r passes through to its line.
LineOfRow(l, r) ==
    /\ l.stock_id = (IF r.stock_sel = CustomSel THEN None ELSE r.stock_sel)
    /\ l.custom_name = (IF r.stock_sel = CustomSel THEN r.custom_name ELSE None)
    /\ l.reagent = ResolveStock(r).label
    /\ l.volume_unit = r.vol_unit
    /\ l.target_unit = r.target_unit
    /\ l.note = r.note
    /\ IF RGt(r.target_conc, Zero) THEN l.target_conc = r.target_conc ELSE l.volume = r.vol

\* The stock concentration of row r in mM, as the lookup or the row gives it.
StockConc_mM(r) == to_mM(ResolveStock(r).sc, ResolveStock(r).su)

\* The computed lines of row k.
LinesOf(k) == SelectSeq(computed, LAMBDA l : l.line_no = k)

\* The number of errors of row k, and whether row k has a computed line.
RowErrorCount(k) == Cardinality({j \in 1..Len(errors) : errors[j].row = k})

InComputed(k) == \E j \in 1..Len(computed) : computed[j].line_no = k

RECURSIVE SumVolumes(_)
\* The volumes of the computed lines, in uL.
SumVolumes(lines) ==
    IF lines = <<>> THEN Zero
    ELSE RAdd(to_uL(Head(lines).volume, Head(lines).volume_unit), SumVolumes(Tail(lines)))

\* Every unit string of the card and of the stock lookup is in its enumeration.
WellFormedUnits ==
    /\ card.final_vol_unit \in VolUnits
    /\ \A k \in 1..Len(card.rows) :
          /\ card.rows[k].target_unit \in ConcUnits
          /\ card.rows[k].vol_unit \in VolUnits
          /\ card.rows[k].custom_stock_unit \in ConcUnits
    /\ \A k \in 1..Len(stocks_df) : stocks_df[k].stock_unit \in ConcUnits

\* The card without row k, and the renumbering of what follows row k.
WithoutRow(c, k) ==
    [c EXCEPT !.rows = [j \in 1..(Len(c.rows) - 1) |-> IF j < k THEN c.rows[j] ELSE c.rows[j + 1]]]

Shift(n, k) == IF n > k THEN n - 1 ELSE n

ErrorsWithout(errs, k) ==
    LET kept == SelectSeq(errs, LAMBDA e : e.row # k)
    IN  [j \in 1..Len(kept) |-> [kept[j] EXCEPT !.row = Shift(@, k)]]

LinesRenumbered(lines, k) ==
    [j \in 1..Len(lines) |-> [lines[j] EXCEPT !.line_no = Shift(@, k)]]

RECURSIVE SoloLines(_)
\* The lines of rows k.. of the card, each row processed on its own from
\* fresh locals at its position.
SoloLines(k) ==
    IF k > Len(card.rows) THEN <<>>
    ELSE LoopBody(Locals0, k, card.rows[k], card, final_uL).computed \o SoloLines(k + 1)

\* The float after x, and floats that are next to each other.
Succ(x) == IF x.m = <<>> THEN x ELSE Renorm(Inc(x.m), x.e)

Neighbours(x, y) == x.m # <<>> /\ y.m # <<>> /\ (y = Succ(x) \/ x = Succ(y))

\* A call of the conversion layer with a unit outside the enumeration of
\* its quantity kind.
UnsupportedUnit(cl) ==
    IF cl.fn \in {"to_mM", "from_mM"} THEN cl.au \notin ConcUnits
    ELSE IF cl.fn \in {"to_uL", "from_uL"} THEN cl.au \notin VolUnits
    ELSE IF cl.fn = "amount_nmol_from_conc_vol" THEN cl.au \notin ConcUnits \/ cl.bu \notin VolUnits
    ELSE IF cl.fn = "calc_volume_uL_from_target"
    THEN cl.au \notin ConcUnits \/ cl.bu \notin ConcUnits \/ cl.cu \notin VolUnits
    ELSE cl.au \notin AmountUnits \/ cl.bu \notin VolUnits

-----------------------------------------------------------------------------
(* The properties.                                                         *)

\* C1: the errors compute_reaction returns hold the mode-cap error at most
\* once, for every card.
C1_ModeCapAtMostOnce ==
    pc = "returned" => CountOf(errors, ModeCapError) <= 1

\* C2: compute_reaction reports the mode-cap error if and only if the card
\* has at least one target-mode row and more than one volume-mode row, where
\* only rows with a usable stock and exactly one of target and volume set
\* count.
C2_ModeCapIff ==
    pc = "returned" =>
        ((CountOf(errors, ModeCapError) >= 1) <=> (NumTargetRows >= 1 /\ NumVolumeRows > 1))

\* C3: in the returned errors, the row errors come first in ascending row
\* order, then the mode-cap error, then the capacity error: no row error
\* follows a reaction-level error and nothing follows the capacity error.
C3_ErrorOrder ==
    pc = "returned" =>
        \A j, k \in 1..Len(errors) :
            j < k =>
                /\ errors[j] # CapacityError
                /\ errors[k].row > 0 => (errors[j].row > 0 /\ errors[j].row < errors[k].row)

\* C4 as claimed: every row with target_conc > 0 and vol > 0 has a row error
\* and no computed line, whatever its stock selection and custom name.
C4_BothSetAlwaysError ==
    pc = "returned" =>
        \A k \in 1..Len(card.rows) :
            BothSet(card.rows[k]) => (RowErrorCount(k) >= 1 /\ ~InComputed(k))

\* C4 as amended: a row with target_conc > 0 and vol > 0 never has a computed
\* line; it has exactly one row error, unless it is a custom row with an
\* empty custom_name, which is skipped without an error.
C4_BothSetRejected ==
    pc = "returned" =>
        \A k \in 1..Len(card.rows) :
            BothSet(card.rows[k]) =>
                /\ ~InComputed(k)
                /\ RowErrorCount(k) = IF Nameless(card.rows[k]) THEN 0 ELSE 1

\* A returned call with a named or persisted row that has both set and was
\* rejected, beside a row that was computed.
C4_Witness ==
    /\ pc = "returned"
    /\ computed # <<>>
    /\ \E k \in 1..Len(card.rows) :
          BothSet(card.rows[k]) /\ UsableStock(card.rows[k]) /\ RowErrorCount(k) = 1

\* C5 as claimed: a row with target_conc = 0 and vol = 0 has no computed line
\* and no error, whatever its stock selection.
C5_InertNeverError ==
    pc = "returned" =>
        \A k \in 1..Len(card.rows) :
            Inert(card.rows[k]) => (RowErrorCount(k) = 0 /\ ~InComputed(k))

\* C5 as amended: the iteration over a row with target_conc = 0 and vol = 0
\* appends no computed line; it appends nothing to errors when the row's
\* stock is usable or the row is a custom row without a name, and exactly
\* the stock error of the row when its persisted id is unknown or its stock
\* concentration is <= 0.
C5_InertRow ==
    [][(pc = "loop" /\ i <= Len(card.rows) /\ Inert(card.rows[i])) =>
          /\ computed' = computed
          /\ errors' = IF UsableStock(card.rows[i]) \/ Nameless(card.rows[i]) THEN errors
                       ELSE IF UnknownStock(card.rows[i])
                       THEN Append(errors, RowError(i, "invalid stock"))
                       ELSE Append(errors, RowError(i, "invalid stock concentration"))]_vars

\* A returned call whose card has an inert row with a usable stock beside a
\* computed row, and no error at all.
C5_Witness ==
    /\ pc = "returned"
    /\ computed # <<>>
    /\ errors = <<>>
    /\ \E k \in 1..Len(card.rows) : Inert(card.rows[k]) /\ UsableStock(card.rows[k])

\* C6: the returned errors hold the capacity error exactly once when the
\* volumes of the computed lines exceed the final volume by more than 1e-6
\* uL, and not at all otherwise.
C6_CapacityCheck ==
    pc = "returned" =>
        CountOf(errors, CapacityError) =
            IF RGt(RSub(SumVolumes(computed), to_uL(card.final_volume, card.final_vol_unit)), Epsilon)
            THEN 1 ELSE 0

\* A returned call with final volume 20 uL whose rows sum to 20.0000005 uL:
\* above the final volume, within the tolerance, and no capacity error.
C6_Witness ==
    /\ pc = "returned"
    /\ final_uL = <<20, 1>>
    /\ total_uL = <<40000001, 2000000>>
    /\ CountOf(errors, CapacityError) = 0

\* C7: every function of the conversion layer fails when one of its unit
\* strings is outside the enumeration of its quantity kind.
C7_UnsupportedUnitFails ==
    (pc = "conv_done" /\ UnsupportedUnit(call)) => ret.exc # "none"

\* C8: a row with an unknown persisted stock id has exactly one row error
\* and no computed line, and the call ends as the call on the card without
\* that row does: the same exception, or the same errors and computed lines
\* up to line numbering, the same total and the same final volume.
C8_UnknownStock ==
    pc \in {"returned", "raised"} =>
        \A k \in 1..Len(card.rows) :
            UnknownStock(card.rows[k]) =>
                LET other == compute_reaction(WithoutRow(card, k))
                IN  IF pc = "raised" THEN other.exc = exc
                    ELSE /\ other.exc = "none"
                         /\ RowErrorCount(k) = 1
                         /\ \E j \in 1..Len(errors) : errors[j] = RowError(k, "invalid stock")
                         /\ ~InComputed(k)
                         /\ other.errors = ErrorsWithout(errors, k)
                         /\ other.computed = LinesRenumbered(computed, k)
                         /\ other.total_uL = total_uL
                         /\ other.final_uL = final_uL

\* A returned call with an unknown-stock row followed by a computed row.
C8_Witness ==
    /\ pc = "returned"
    /\ \E k \in 1..Len(card.rows) :
          /\ UnknownStock(card.rows[k])
          /\ RowErrorCount(k) = 1
          /\ \E j \in 1..Len(computed) : computed[j].line_no > k

\* C9: the computed lines are those of each row processed on its own at its
\* position with the same final volume and stock lookup: no line is changed
\* or suppressed by other rows, by the mode-cap error or by the capacity
\* error.
C9_RowIndependence ==
    pc = "returned" => computed = SoloLines(1)

\* A returned call with the mode-cap error, the capacity error and a
\* computed line for each of its three rows.
C9_Witness ==
    /\ pc = "returned"
    /\ CountOf(errors, ModeCapError) >= 1
    /\ CountOf(errors, CapacityError) = 1
    /\ Len(computed) = 3

\* C10: with every unit string in its enumeration, compute_reaction never
\* raises, whatever the numbers.
C10_Totality ==
    WellFormedUnits => (pc # "raised" /\ exc = "none")

\* A returned call with final volume 0 and a computed volume-mode line of a
\* row with a negative target, beside a row with a non-positive stock
\* concentration.
C10_Witness ==
    /\ pc = "returned"
    /\ WellFormedUnits
    /\ final_uL = Zero
    /\ \E k \in 1..Len(card.rows) : InComputed(k) /\ card.rows[k].target_conc[1] < 0
    /\ \E k \in 1..Len(card.rows) : RowErrorCount(k) = 1 /\ ~UnknownStock(card.rows[k]) /\ ~BothSet(card.rows[k])

\* C11: a row with target_conc > 0, vol not > 0 and a usable stock has one
\* computed line; its volume is (target_mM * final_uL) / stock_mM converted
\* from uL into the row's vol_unit, and its target_conc and target_unit are
\* those of the row.
C11_TargetMode ==
    pc = "returned" =>
        \A k \in 1..Len(card.rows) :
            IsTargetRow(card.rows[k]) =>
                LET r == card.rows[k]
                    v_uL == PyDiv(RMul(to_mM(r.target_conc, r.target_unit), final_uL), StockConc_mM(r))
                IN  /\ Len(LinesOf(k)) = 1
                    /\ LinesOf(k)[1].volume = from_uL(v_uL, r.vol_unit)
                    /\ LinesOf(k)[1].volume_unit = r.vol_unit
                    /\ LinesOf(k)[1].target_conc = r.target_conc
                    /\ LinesOf(k)[1].target_unit = r.target_unit

\* A returned call with final volume 20 uL whose row of stock 100 mM and
\* target 10 mM has the volume 2 uL, beside a target-mode row of stock 2 M
\* and target 500 uM shown in mL: 0.005 uL = 0.000005 mL.
C11_Witness ==
    /\ pc = "returned"
    /\ final_uL = <<20, 1>>
    /\ \E k \in 1..Len(card.rows) :
          /\ IsTargetRow(card.rows[k])
          /\ StockConc_mM(card.rows[k]) = <<100, 1>>
          /\ card.rows[k].target_conc = <<10, 1>>
          /\ LinesOf(k)[1].volume = <<2, 1>>
          /\ LinesOf(k)[1].volume_unit = "uL"
    /\ \E k \in 1..Len(card.rows) :
          /\ IsTargetRow(card.rows[k])
          /\ LinesOf(k)[1].volume = <<1, 200000>>
          /\ LinesOf(k)[1].volume_unit = "mL"

\* C12 as claimed: a row with vol > 0, target_conc not > 0 and a usable
\* stock has one computed line with the row's vol and vol_unit, and its
\* target_conc is the quotient stock_mM * volume_uL / final_uL converted from
\* mM into the row's target_unit.
C12_VolumeModeQuotient ==
    pc = "returned" =>
        \A k \in 1..Len(card.rows) :
            IsVolumeRow(card.rows[k]) =>
                LET r == card.rows[k]
                IN  /\ Len(LinesOf(k)) = 1
                    /\ LinesOf(k)[1].volume = r.vol
                    /\ LinesOf(k)[1].volume_unit = r.vol_unit
                    /\ LinesOf(k)[1].target_unit = r.target_unit
                    /\ final_uL # Zero
                    /\ LinesOf(k)[1].target_conc =
                          from_mM(PyDiv(RMul(StockConc_mM(r), to_uL(r.vol, r.vol_unit)), final_uL), r.target_unit)

\* C12 as amended: the line has the row's vol and vol_unit; its target_conc
\* is stock_mM * volume_uL / final_uL converted from mM into the row's
\* target_unit when the final volume is not 0, and 0 when it is 0.
C12_VolumeMode ==
    pc = "returned" =>
        \A k \in 1..Len(card.rows) :
            IsVolumeRow(card.rows[k]) =>
                LET r == card.rows[k]
                IN  /\ Len(LinesOf(k)) = 1
                    /\ LinesOf(k)[1].volume = r.vol
                    /\ LinesOf(k)[1].volume_unit = r.vol_unit
                    /\ LinesOf(k)[1].target_unit = r.target_unit
                    /\ LinesOf(k)[1].target_conc =
                          IF final_uL = Zero THEN Zero
                          ELSE from_mM(PyDiv(RMul(StockConc_mM(r), to_uL(r.vol, r.vol_unit)), final_uL), r.target_unit)

\* A returned call with final volume 20 uL whose row of stock 50 mM and
\* volume 5 uL has the target 12.5 mM, beside a volume-mode row given in mL
\* whose target is shown in nM.
C12_Witness ==
    /\ pc = "returned"
    /\ final_uL = <<20, 1>>
    /\ \E k \in 1..Len(card.rows) :
          /\ IsVolumeRow(card.rows[k])
          /\ StockConc_mM(card.rows[k]) = <<50, 1>>
          /\ card.rows[k].vol = <<5, 1>>
          /\ LinesOf(k)[1].target_conc = <<25, 2>>
          /\ LinesOf(k)[1].target_unit = "mM"
    /\ \E k \in 1..Len(card.rows) :
          /\ IsVolumeRow(card.rows[k])
          /\ LinesOf(k)[1].volume_unit = "mL"
          /\ LinesOf(k)[1].target_unit = "nM"
          /\ LinesOf(k)[1].target_conc = <<50025000, 1>>

\* C13: the amount of every computed line is the line's target concentration
\* converted to mM times the final volume of the reaction in uL, and its
\* amount_unit is "nmol".
C13_Amount ==
    \A j \in 1..Len(computed) :
        /\ computed[j].amount = RMul(to_mM(computed[j].target_conc, computed[j].target_unit), final_uL)
        /\ computed[j].amount_unit = "nmol"

\* A returned call with final volume 20 uL, a line of target 10 mM with
\* 200 nmol and a volume-mode line of effective target 12.5 mM with 250 nmol.
C13_Witness ==
    /\ pc = "returned"
    /\ final_uL = <<20, 1>>
    /\ \E j \in 1..Len(computed) :
          /\ computed[j].target_conc = <<10, 1>>
          /\ computed[j].target_unit = "mM"
          /\ computed[j].amount = <<200, 1>>
    /\ \E j \in 1..Len(computed) :
          /\ IsVolumeRow(card.rows[computed[j].line_no])
          /\ computed[j].target_conc = <<25, 2>>
          /\ computed[j].volume = <<5, 1>>
          /\ computed[j].amount = <<250, 1>>

\* C14 as claimed: for every unit u of {M, mM, uM, nM} and float v >= 0,
\* from_mM(to_mM(v, u), u) is v, and for every unit u of {uL, mL},
\* from_uL(to_uL(v, u), u) is v.
C14_RoundTripExact ==
    pc = "f64_back" => ret.val = call.a

\* C14 as amended: the round trip returns v itself for the canonical units
\* mM and uL and for v = 0, and otherwise v or one of the two floats next to
\* v, a relative difference of at most 2^-52, below 1e-9.
C14_RoundTrip ==
    pc = "f64_back" =>
        /\ ret.exc = "none"
        /\ IF call.au \in {"mM", "uL"} \/ call.a = F64Zero THEN ret.val = call.a
           ELSE ret.val = call.a \/ Neighbours(ret.val, call.a)

\* The round trip of 3.97 through "uM" has returned 3.9700000000000006, the
\* float after 3.97.
C14_Witness ==
    /\ pc = "f64_back"
    /\ call.fn = "to_mM"
    /\ call.au = "uM"
    /\ call.a = F64(133211095, 2684355, -51)
    /\ ret.val = Succ(call.a)

\* C15: amount_nmol_from_conc_vol(c, "mM", v, "uL") returns c * v, and with
\* any supported units it returns to_mM(c, conc_unit) * to_uL(v, vol_unit).
C15_CanonicalAmount ==
    (pc = "conv_done" /\ call.fn = "amount_nmol_from_conc_vol"
        /\ call.au \in ConcUnits /\ call.bu \in VolUnits) =>
        /\ ret.exc = "none"
        /\ ret.val = RMul(to_mM(call.a, call.au), to_uL(call.b, call.bu))
        /\ (call.au = "mM" /\ call.bu = "uL") => ret.val = RMul(call.a, call.b)

\* amount_nmol_from_conc_vol(5, "mM", 0.125, "uL") has returned 0.625.
C15_Witness ==
    /\ pc = "conv_done"
    /\ call.fn = "amount_nmol_from_conc_vol"
    /\ call.a = <<5, 1>> /\ call.au = "mM"
    /\ call.b = <<1, 8>> /\ call.bu = "uL"
    /\ ret.val = <<5, 8>>

\* C16: the line_no of every computed line is the 1-based position of its
\* row in card["rows"], also after rows that were skipped or rejected; the
\* line_no values are within 1..len(rows) and strictly increasing along
\* computed, hence pairwise distinct.
C16_LineNumbers ==
    /\ \A j \in 1..Len(computed) :
          /\ computed[j].line_no \in 1..Len(card.rows)
          /\ LineOfRow(computed[j], card.rows[computed[j].line_no])
    /\ \A j, k \in 1..Len(computed) : j < k => computed[j].line_no < computed[k].line_no

\* A returned call on three different rows: the first and the third have a
\* line, numbered 1 and 3, the second was rejected with a row error.
C16_Witness ==
    /\ pc = "returned"
    /\ Len(card.rows) = 3
    /\ card.rows[1] # card.rows[3]
    /\ RowErrorCount(2) = 1
    /\ Len(computed) = 2
    /\ computed[1].line_no = 1
    /\ computed[2].line_no = 3

C18_TemplateItemsHaveStock ==
    \A k \in 1..Len(database.template_items) : database.template_items[k].stock_id # None

\* The card of the page with the name nm.
CardNamed(nm) == CHOOSE k \in 1..Len(session_state.rx_cards) : session_state.rx_cards[k].name = nm

\* What compute_reaction returns for card k of the page.
ResultOf(k) == compute_reaction(session_state.rx_cards[k])

\* Card k of the page is included and has errors or no computed rows.
NotReady(k) ==
    /\ session_state.rx_cards[k].include_in_save_all
    /\ (ResultOf(k).errors # <<>> \/ ResultOf(k).computed = <<>>)

\* C19: 'Save ALL' never persists a reaction whose errors list is non-empty:
\* if any included card has validation errors or no computed rows, nothing
\* at all is written (no plan, no reaction, no item); every reaction that is
\* written belongs to a card that is included and has no errors, and every
\* item to a reaction that is written.
C19_SaveAllOnlyReady ==
    /\ (\E k \in 1..Len(session_state.rx_cards) : NotReady(k)) => database = EmptyDb
    /\ \A j \in 1..Len(database.reactions) :
          \E k \in 1..Len(session_state.rx_cards) :
             /\ session_state.rx_cards[k].name = database.reactions[j].title
             /\ session_state.rx_cards[k].include_in_save_all
             /\ ResultOf(k).errors = <<>>
    /\ \A j \in 1..Len(database.reaction_items) :
          \E r \in 1..Len(database.reactions) :
             database.reactions[r].reaction_id = database.reaction_items[j].reaction_id

\* 'Save ALL' was clicked on two included cards, one ready and one with
\* errors: the problems are shown and nothing is written.
C19_Witness ==
    /\ pc = "done"
    /\ ret.kind = "problems"
    /\ Len(session_state.rx_cards) = 2
    /\ session_state.rx_cards[1].include_in_save_all
    /\ ResultOf(1).errors = <<>> /\ ResultOf(1).computed # <<>>
    /\ session_state.rx_cards[2].include_in_save_all
    /\ ResultOf(2).errors # <<>>
    /\ database = EmptyDb

\* The volume left to fill for the card with the name nm.
FillOf(nm) == RSub(ResultOf(CardNamed(nm)).final_uL, ResultOf(CardNamed(nm)).total_uL)

\* The exported table df ends with the line "D.W.".
HasFillLine(df) ==
    /\ Len(df) > 0
    /\ df[Len(df)].reagent = "D.W."
    /\ df[Len(df)].note = "Fill to final volume"
    /\ df[Len(df)].volume_unit = "uL"

\* The exported table df is the computed lines, followed by the line "D.W."
\* exactly when more than 1e-6 uL is left to fill.
FillLineIff(e) ==
    /\ SubSeq(e.df, 1, Len(ResultOf(CardNamed(e.name)).computed)) = ResultOf(CardNamed(e.name)).computed
    /\ IF RGt(FillOf(e.name), Epsilon)
       THEN Len(e.df) = Len(ResultOf(CardNamed(e.name)).computed) + 1 /\ HasFillLine(e.df)
       ELSE Len(e.df) = Len(ResultOf(CardNamed(e.name)).computed)

\* v is x rounded to three decimals: a multiple of 0.001 at most 0.0005
\* from x.
RoundedTo3(v, x) ==
    /\ 1000 % v[2] = 0
    /\ RLe(RSub(v, x), <<1, 2000>>)
    /\ RLe(RSub(x, v), <<1, 2000>>)

\* C20 as stated: the line "D.W." is in the export of a reaction if and only
\* if final_uL - total_uL > 1e-6, and its volume is final_uL - total_uL.
C20_FillVolumeExact ==
    ret.kind = "export" =>
       \A j \in 1..Len(ret.export_data) :
          /\ FillLineIff(ret.export_data[j])
          /\ HasFillLine(ret.export_data[j].df) =>
                ret.export_data[j].df[Len(ret.export_data[j].df)].volume = FillOf(ret.export_data[j].name)

\* C20: the line "D.W." is in the export of a reaction if and only if
\* final_uL - total_uL > 1e-6 (never when the reagents fill or over-fill the
\* final volume), and its volume is final_uL - total_uL rounded to three
\* decimals, in uL.
C20_FillLine ==
    ret.kind = "export" =>
       \A j \in 1..Len(ret.export_data) :
          /\ FillLineIff(ret.export_data[j])
          /\ HasFillLine(ret.export_data[j].df) =>
                RoundedTo3(ret.export_data[j].df[Len(ret.export_data[j].df)].volume,
                           FillOf(ret.export_data[j].name))

\* An export of two reactions: one with 18 uL left to fill and the line
\* "D.W." of 18 uL, one filled exactly and without the line.
C20_Witness ==
    /\ pc = "done"
    /\ ret.kind = "export"
    /\ Len(ret.export_data) = 2
    /\ FillOf(ret.export_data[1].name) = <<18, 1>>
    /\ HasFillLine(ret.export_data[1].df)
    /\ ret.export_data[1].df[Len(ret.export_data[1].df)].volume = <<18, 1>>
    /\ FillOf(ret.export_data[2].name) = Zero
    /\ ~HasFillLine(ret.export_data[2].df)

\* The stock of row r resolves (a persisted id of the lookup, or a custom
\* reagent with a name) and its concentration is <= 0.
NonPositiveStock(r) ==
    IF r.stock_sel = CustomSel
    THEN r.custom_name # "" /\ RLe(r.custom_stock_conc, Zero)
    ELSE \E k \in 1..Len(stocks_df) :
            stocks_df[k].id = r.stock_sel /\ RLe(stocks_df[k].stock_conc, Zero)

\* The rows before row n that have passed the stock checks.
UsableBefore(n) == {k \in 1..(n - 1) : k <= Len(card.rows) /\ UsableStock(card.rows[k])}

\* C21: a row whose resolved stock concentration is <= 0 has exactly one
\* error, "invalid stock concentration", and no computed line, so that every
\* computed line has stock_conc > 0; the row is rejected before the mode is
\* determined: the counters of target rows and of volume rows count only
\* rows with a usable stock.
C21_InvalidStockConc ==
    pc \in {"loop", "returned"} =>
        /\ \A k \in 1..(i - 1) :
              NonPositiveStock(card.rows[k]) =>
                 /\ RowErrorCount(k) = 1
                 /\ CountOf(errors, RowError(k, "invalid stock concentration")) = 1
                 /\ ~InComputed(k)
        /\ \A j \in 1..Len(computed) : RGt(computed[j].stock_conc, Zero)
        /\ n_target_rows = Cardinality({k \in UsableBefore(i) : RGt(card.rows[k].target_conc, Zero)})
        /\ n_volume_rows = Cardinality({k \in UsableBefore(i) : RGt(card.rows[k].vol, Zero)})

\* A returned call with a row that asks for a target concentration from a
\* stock of concentration 0, rejected beside a row that was computed, and
\* counted in neither counter.
C21_Witness ==
    /\ pc = "returned"
    /\ computed # <<>>
    /\ n_target_rows = 0
    /\ \E k \in 1..Len(card.rows) :
          /\ NonPositiveStock(card.rows[k])
          /\ RGt(card.rows[k].target_conc, Zero)
          /\ RowErrorCount(k) = 1

\* C22: the iteration over a custom row with an empty custom_name changes
\* nothing: no error, no computed line, no volume added to the total, and
\* neither mode counter incremented, whatever the row's target, volume and
\* stock concentration.
C22_NamelessSkipped ==
    [][(pc = "loop" /\ i <= Len(card.rows) /\ Nameless(card.rows[i])) =>
          UNCHANGED <<errors, computed, total_uL, n_target_rows, n_volume_rows, exc>>]_vars

\* A returned call over a custom row without a name that has a target, a
\* volume and a stock concentration set, beside a computed row: no error.
C22_Witness ==
    /\ pc = "returned"
    /\ errors = <<>>
    /\ Len(computed) = 1
    /\ n_target_rows + n_volume_rows = 1
    /\ \E k \in 1..Len(card.rows) :
          /\ Nameless(card.rows[k])
          /\ BothSet(card.rows[k])
          /\ RGt(card.rows[k].custom_stock_conc, Zero)

\* C23: the returned total_uL is the sum, over the lines of computed, of the
\* line's volume converted to uL with its volume_unit (rows without a line
\* add nothing), and the returned final_uL is the card's final volume
\* converted to uL.
C23_TotalIsSumOfLines ==
    pc = "returned" =>
        /\ total_uL = SumVolumes(computed)
        /\ final_uL = to_uL(card.final_volume, card.final_vol_unit)

\* A returned call with two computed lines, one of them in mL, and a
\* rejected row, for a final volume given in mL.
C23_Witness ==
    /\ pc = "returned"
    /\ Len(computed) = 2
    /\ \E j \in 1..2 : computed[j].volume_unit = "mL"
    /\ \E k \in 1..Len(card.rows) : RowErrorCount(k) = 1
    /\ card.final_vol_unit = "mL"
    /\ RGt(total_uL, Zero)

\* C24: with supported units, calc_volume_uL_from_target returns 0 when the
\* stock concentration converted to mM is <= 0, for every target and final
\* volume, and (target_mM * final_uL) / stock_mM otherwise; with any units,
\* it never raises ZeroDivisionError.
C24_CalcVolumeGuard ==
    (pc = "conv_done" /\ call.fn = "calc_volume_uL_from_target") =>
        /\ ret.exc # "ZeroDivisionError"
        /\ (call.au \in ConcUnits /\ call.bu \in ConcUnits /\ call.cu \in VolUnits) =>
              /\ ret.exc = "none"
              /\ ret.val = IF RLe(to_mM(call.a, call.au), Zero) THEN Zero
                           ELSE RMul(RMul(to_mM(call.b, call.bu), to_uL(call.c, call.cu)),
                                     RInv(to_mM(call.a, call.au)))

\* calc_volume_uL_from_target(0, "mM", 5, "mM", 5, "uL") has returned 0.
C24_Witness ==
    /\ pc = "conv_done"
    /\ call.fn = "calc_volume_uL_from_target"
    /\ call.a = Zero /\ call.au = "mM"
    /\ call.b = <<5, 1>> /\ call.bu = "mM"
    /\ call.c = <<5, 1>> /\ call.cu = "uL"
    /\ ret.exc = "none"
    /\ ret.val = Zero

\* The amount of a call of conc_from_amount_volume in nmol and its volume in
\* uL, for the listed units.
Amount_nmol(cl) ==
    IF cl.au = "pmol" THEN RMul(cl.a, <<1, 1000>>)
    ELSE IF cl.au = "umol" THEN RMul(cl.a, <<1000, 1>>)
    ELSE cl.a

Volume_uL(cl) == IF cl.bu = "mL" THEN RMul(cl.b, <<1000, 1>>) ELSE cl.b

\* C25: conc_from_amount_volume, called with an amount in nmol, pmol or umol
\* and a volume in uL or mL, returns (0, "mM") when the volume in uL is not
\* positive and (amount_nmol / volume_uL, "mM") otherwise; with any units it
\* returns, and the unit it returns is "mM".
C25_ConcFromAmount ==
    (pc = "conv_done" /\ call.fn = "conc_from_amount_volume") =>
        /\ ret.exc = "none"
        /\ ret.unit = "mM"
        /\ (call.au \in AmountUnits /\ call.bu \in VolUnits) =>
              ret.val = IF RGt(Volume_uL(call), Zero)
                        THEN RMul(Amount_nmol(call), RInv(Volume_uL(call)))
                        ELSE Zero

\* conc_from_amount_volume(5, "pmol", 0.125, "mL") has returned 0.00004 mM.
C25_Witness ==
    /\ pc = "conv_done"
    /\ call.fn = "conc_from_amount_volume"
    /\ call.a = <<5, 1>> /\ call.au = "pmol"
    /\ call.b = <<1, 8>> /\ call.bu = "mL"
    /\ ret.val = <<1, 25000>>
    /\ ret.unit = "mM"

\* The float y is x or one of the two floats after x, and floats that are
\* at most two floats apart.
UpToTwoAfter(x, y) == y = x \/ y = Succ(x) \/ y = Succ(Succ(x))

NearlyEqual(x, y) == UpToTwoAfter(x, y) \/ UpToTwoAfter(y, x)

\* stock_mM * volume_uL of the line l of the one-row card, on floats.
Pipetted(l) == fmul(to_uL_f64(l.volume, l.volume_unit).val, card.rows[1].custom_stock_conc)

C27_SupportedUnits ==
    pc = "returned" =>
        /\ \A j \in 1..Len(computed) :
              /\ computed[j].stock_unit \in ConcUnits
              /\ computed[j].target_unit \in ConcUnits
              /\ computed[j].volume_unit \in VolUnits
        /\ \A k \in 1..Len(card.rows) :
              (IsTargetRow(card.rows[k]) \/ IsVolumeRow(card.rows[k])) =>
                 /\ ResolveStock(card.rows[k]).su \in ConcUnits
                 /\ card.rows[k].target_unit \in ConcUnits
                 /\ card.rows[k].vol_unit \in VolUnits

\* C28: every computed line names its stock by exactly one of stock_id and
\* custom_name: the line of a row that selects a persisted stock has the
\* row's selected id, an id of the stock lookup, as stock_id and None as
\* custom_name; the line of a custom row has stock_id None and a custom_name
\* that is not empty and is the reagent label of the line.
C28_StockIdentity ==
    \A j \in 1..Len(computed) :
        /\ (computed[j].stock_id = None) # (computed[j].custom_name = None)
        /\ IF card.rows[computed[j].line_no].stock_sel = CustomSel
           THEN /\ computed[j].stock_id = None
                /\ computed[j].custom_name \notin {"", None}
                /\ computed[j].custom_name = card.rows[computed[j].line_no].custom_name
                /\ computed[j].custom_name = computed[j].reagent
           ELSE /\ computed[j].stock_id = card.rows[computed[j].line_no].stock_sel
                /\ computed[j].stock_id \in StockIds
                /\ computed[j].custom_name = None

\* A returned call with the line of a persisted stock and the line of a
\* custom reagent.
C28_Witness ==
    /\ pc = "returned"
    /\ Len(computed) = 2
    /\ computed[1].stock_id = "S100" /\ computed[1].custom_name = None
    /\ computed[2].stock_id = None /\ computed[2].custom_name = "dye"

\* C29: save_all_to_db is all-or-nothing: when it returns ok = False or
\* raises because an INSERT failed, no plan, no reaction and no item that
\* the call wrote is left in the database.
C29_AllOrNothing ==
    (pc = "done" /\ ret.kind \in {"not saved", "exception"}) =>
        /\ database.plans = <<>>
        /\ database.reactions = <<>>
        /\ database.reaction_items = <<>>

\* C30: after any sequence of "Add Reaction", "Copy Reaction", the delete
\* button of a card and "Remove last", the list of reaction cards of the
\* session holds at least one card.
C30_AtLeastOneCard ==
    pc = "New Reaction" => Len(session_state.rx_cards) >= 1

\* The first card was copied and cards were removed: the one card that is
\* left is a copy.
C30_Witness ==
    /\ pc = "New Reaction"
    /\ Len(session_state.rx_cards) = 1
    /\ session_state.rx_cards[1].name = <<1, 1>>

====
